---------------------------- MODULE Spec2Model ----------------------------
(***************************************************************************)
(* 3D-printing quote calculator (src/script.js, per-file settings variant). *)
(*                                                                         *)
(* Number representation.  A JavaScript Number that can carry a fraction   *)
(* (millimetres, mm^3, grams, minutes, THB, percentages, multipliers) is an *)
(* integer count of millionths (SCALE units per 1.0) and every product of  *)
(* two such numbers is truncated to a millionth, the way an IEEE double    *)
(* product is rounded to its last bit.  Numbers the code only uses as whole *)
(* counts (model ids, array indexes, lengths) are plain integers.  All     *)
(* values stay below 2^31 / SCALE = 2147.48 units.                         *)
(***************************************************************************)
EXTENDS Integers, Sequences, FiniteSets, TLC

SCALE == 1000 * 1000

\* the value of an arithmetic expression one of whose operands is undefined
NaN == -(2^30 - 1 + 2^30)

Abs(x) == IF x < 0 THEN -x ELSE x
Sign(x) == IF x < 0 THEN -1 ELSE 1
Min2(x, y) == IF x < y THEN x ELSE y
Max2(x, y) == IF x > y THEN x ELSE y

\* the product of the fractional parts x1.x0 and y1.y0 (thousandths and
\* millionths), truncated to a millionth
MulFrac(x1, x0, y1, y0) == x1 * y1 + (x1 * y0 + x0 * y1 + (x0 * y0) \div 1000) \div 1000

\* a * b from the whole and fractional parts of a and of b
MulParts(aq, ar, b, bq, br) ==
  aq * b + ar * bq + MulFrac(ar \div 1000, ar % 1000, br \div 1000, br % 1000)

\* a * b of two non-negative fixed-point numbers, truncated, computed limb by
\* limb so that no intermediate product leaves the 32-bit range
MulNat(a, b) == MulParts(a \div SCALE, a % SCALE, b, b \div SCALE, b % SCALE)

\* JavaScript a * b
Mul(a, b) ==
  IF a = NaN \/ b = NaN THEN NaN ELSE Sign(a) * Sign(b) * MulNat(Abs(a), Abs(b))

\* JavaScript a / k for a divisor k that is a whole number (every divisor of the
\* pricing code is one: 1000, 100, 60, 6, the taper, a speed)
DivWhole(a, k) ==
  IF a = NaN \/ k = NaN THEN NaN ELSE Sign(a) * (Abs(a) \div (k \div SCALE))

\* Math.ceil, Math.round (half up), Math.floor on a fixed-point number
Ceil(x) == (-((-x) \div SCALE)) * SCALE
Round(x) == ((x + SCALE \div 2) \div SCALE) * SCALE
Floor(x) == (x \div SCALE) * SCALE

Num(whole) == whole * SCALE

(* ============================== CONFIG ================================= *)
MaterialNames == {"PLA", "PETG", "ABS", "PETG-CF"}

MATERIALS ==
  [k \in MaterialNames |->
     CASE k = "PLA"     -> [rate |-> 2000000, baseFee |-> Num(150), density_g_cm3 |-> 1240000]
       [] k = "PETG"    -> [rate |-> 2400000, baseFee |-> Num(160), density_g_cm3 |-> 1270000]
       [] k = "ABS"     -> [rate |-> 3000000, baseFee |-> Num(180), density_g_cm3 |-> 1040000]
       [] k = "PETG-CF" -> [rate |-> 2800000, baseFee |-> Num(175), density_g_cm3 |-> 1300000]]

QualityNames == {"draft", "standard", "fine"}

QUALITY_SPEED ==
  [k \in QualityNames |->
     CASE k = "draft" -> Num(1134) [] k = "standard" -> Num(486) [] k = "fine" -> Num(194)]

SHELL_BASE == 700000
INFILL_PORTION == SCALE - SHELL_BASE
CALIBRATION_MULT == 2020000
WASTE_GRAMS_PER_PART == 2000000
SUPPORT_MASS_MULT == 1250000

clamp(v, min, max) == Max2(min, Min2(max, v))

\* the infill term subtracted instead of added
InfillTimeMultFalling(p) == 850000 - Mul(DivWhole(clamp(p, 0, Num(100)), Num(100)), 600000)

INFILL_TIME_MULT(p) == 850000 + Mul(DivWhole(clamp(p, 0, Num(100)), Num(100)), 600000)
SUPPORT_TIME_MULT(yn) == IF yn = "yes" THEN 1150000 ELSE 1000000

PREP_TIME_PER_JOB_MIN == Num(6) + DivWhole(Num(14), Num(60))
PREP_IS_PER_PART == FALSE

SMALL_FEE_THRESHOLD == Num(250)
SMALL_FEE_TAPER == Num(400)
PRINT_RATE_PER_HOUR == Num(10)

(* ============================= CORE MATH =============================== *)
\* x + y of numbers that may be NaN
Plus(x, y) == IF x = NaN \/ y = NaN THEN NaN ELSE x + y

\* the summand with one sign slipped: the last product added instead of subtracted
DetSignSlip(ax, ay, az, bx, by, bz, cx, cy, cz) ==
  Mul(Mul(ax, by), cz) + Mul(Mul(bx, cy), az) + Mul(Mul(cx, ay), bz)
    - Mul(Mul(ax, cy), bz) - Mul(Mul(bx, ay), cz) + Mul(Mul(cx, by), az)

\* the summand with the third factor of the first product dropped
DetDroppedFactor(ax, ay, az, bx, by, bz, cx, cy, cz) ==
  Mul(ax, by) + Mul(Mul(bx, cy), az) + Mul(Mul(cx, ay), bz)
    - Mul(Mul(ax, cy), bz) - Mul(Mul(bx, ay), cz) - Mul(Mul(cx, by), az)

\* ax*by*cz + bx*cy*az + cx*ay*bz - ax*cy*bz - bx*ay*cz - cx*by*az
\* (script.js line 393)
Term(ax, ay, az, bx, by, bz, cx, cy, cz) ==
  Mul(Mul(ax, by), cz) + Mul(Mul(bx, cy), az) + Mul(Mul(cx, ay), bz)
    - Mul(Mul(ax, cy), bz) - Mul(Mul(bx, ay), cz) - Mul(Mul(cx, by), az)

\* the summand of the triangle starting at index i.  A read past the end of a
\* typed array gives undefined and every product with it is NaN; a[i+8] is
\* the first read to fall past the end and the first product has it
TriangleTerm(a, i) ==
  IF i + 8 < Len(a)
    THEN Term(a[i + 1], a[i + 2], a[i + 3], a[i + 4], a[i + 5], a[i + 6],
              a[i + 7], a[i + 8], a[i + 9])
    ELSE NaN

\* for (let i=0;i<a.length;i+=9) v += term
RECURSIVE VolumeLoop(_, _, _)
VolumeLoop(a, i, v) ==
  IF i >= Len(a) THEN v ELSE VolumeLoop(a, i + 9, Plus(v, TriangleTerm(a, i)))

\* v/6, the absolute value forgotten
SignedSixth(v) == IF v = NaN THEN NaN ELSE DivWhole(v, Num(6))

\* return Math.abs(v)/6
AbsSixth(v) == IF v = NaN THEN NaN ELSE DivWhole(Abs(v), Num(6))

computeVolume(a) == AbsSixth(VolumeLoop(a, 0, 0))

\* what a call of computeVolume(g) gives its caller: the function has no throw
\* statement and no operation of it can throw on a typed array
CallComputeVolume(a) == [threw |-> "nothing", value |-> computeVolume(a)]

(* --------------------------- estimateForModel -------------------------- *)
\* SHELL_BASE * 1: the infill percentage ignored
fillFactorShellOnly(infill) == SHELL_BASE

\* const fillFactor = SHELL_BASE + INFILL_PORTION * (m.infill/100)
fillFactor(infill) == SHELL_BASE + Mul(INFILL_PORTION, DivWhole(infill, Num(100)))

\* const grams_solid = (m.volume_mm3/1000) * mat.density_g_cm3
grams_solid(m) == Mul(DivWhole(m.volume_mm3, Num(1000)), MATERIALS[m.material].density_g_cm3)

\* const supportMass = m.supports==='yes' ? SUPPORT_MASS_MULT : 1.0
supportMass(m) == IF m.supports = "yes" THEN SUPPORT_MASS_MULT ELSE SCALE

\* the waste allowance calibrated with the printed mass
gramsPerPartWasteCalibrated(m) ==
  Mul(Mul(Mul(grams_solid(m), fillFactor(m.infill)), supportMass(m))
        + WASTE_GRAMS_PER_PART,
      CALIBRATION_MULT)

\* the calibration multiplier left out
gramsPerPartUncalibrated(m) ==
  Mul(Mul(grams_solid(m), fillFactor(m.infill)), supportMass(m)) + WASTE_GRAMS_PER_PART

\* const gramsPerPart = grams_solid*fillFactor*supportMass*CALIBRATION_MULT
\*                      + WASTE_GRAMS_PER_PART
gramsPerPart(m) ==
  Mul(Mul(Mul(grams_solid(m), fillFactor(m.infill)), supportMass(m)), CALIBRATION_MULT)
    + WASTE_GRAMS_PER_PART

\* const baseSpeed = QUALITY_SPEED[m.quality]: undefined for a tier that is no
\* key of the table, and a division by undefined gives NaN
baseSpeed(quality) ==
  IF quality \in DOMAIN QUALITY_SPEED THEN QUALITY_SPEED[quality] ELSE NaN

\* let timeMinPerPart = (m.volume_mm3 / baseSpeed)
\*                      * (INFILL_TIME_MULT(m.infill) * SUPPORT_TIME_MULT(m.supports))
timeMinPerPart(m) ==
  Mul(DivWhole(m.volume_mm3, baseSpeed(m.quality)),
      Mul(INFILL_TIME_MULT(m.infill), SUPPORT_TIME_MULT(m.supports)))

\* the costs and the returned object, from the totals of the model
EstimateCosts(m, perPart, gramsTotal, minutesTotal, materialCost, printCost) ==
  [gramsPerPart |-> perPart, gramsTotal |-> gramsTotal, minutesTotal |-> minutesTotal,
   materialCost |-> materialCost, printCost |-> printCost,
   sub |-> Plus(materialCost, printCost),
   matBaseFee |-> MATERIALS[m.material].baseFee]

EstimateTotals(m, perPart, gramsTotal, minutesTotal) ==
  EstimateCosts(m, perPart, gramsTotal, minutesTotal,
                Mul(gramsTotal, MATERIALS[m.material].rate),
                Mul(DivWhole(minutesTotal, Num(60)), PRINT_RATE_PER_HOUR))

\* the prep overhead counted into the minutes of the model
EstimatePerPartWithPrep(m, perPart, minPerPart) ==
  EstimateTotals(m, perPart, Mul(perPart, m.qty),
                 Mul(minPerPart, m.qty) + PREP_TIME_PER_JOB_MIN)

\* const gramsTotal = gramsPerPart * m.qty; const minutesTotal = timeMinPerPart * m.qty
EstimatePerPart(m, perPart, minPerPart) ==
  EstimateTotals(m, perPart, Mul(perPart, m.qty), Mul(minPerPart, m.qty))

\* m: [volume_mm3, material, quality, infill, supports, qty]
estimateForModel(m) == EstimatePerPart(m, gramsPerPart(m), timeMinPerPart(m))

\* a call of estimateForModel: for a material that is no key of MATERIALS mat is
\* undefined and reading mat.density_g_cm3 (line 402) throws a TypeError
CallEstimateForModel(m) ==
  IF m.material \in DOMAIN MATERIALS
    THEN [threw |-> "nothing", value |-> estimateForModel(m)]
    ELSE [threw |-> "TypeError", value |-> <<>>]

(* =============================== RECALC ================================ *)
\* a taper of half the slope, which reaches zero at threshold + 2 * taper
SmallOrderFeeHalfSlope(subtotal, maxBaseFee) ==
  IF subtotal <= SMALL_FEE_THRESHOLD
    THEN maxBaseFee
    ELSE Max2(maxBaseFee
                - Mul(DivWhole(subtotal - SMALL_FEE_THRESHOLD, 2 * SMALL_FEE_TAPER),
                      maxBaseFee),
              0)

\* a fee that drops to nothing right above the threshold
SmallOrderFeeCliff(subtotal, maxBaseFee) ==
  IF subtotal <= SMALL_FEE_THRESHOLD THEN maxBaseFee ELSE 0

\* the taper without its floor at zero
SmallOrderFeeUnclamped(subtotal, maxBaseFee) ==
  IF subtotal <= SMALL_FEE_THRESHOLD
    THEN maxBaseFee
    ELSE maxBaseFee
           - Mul(DivWhole(subtotal - SMALL_FEE_THRESHOLD, SMALL_FEE_TAPER), maxBaseFee)

\* the small-order fee on the HIGHEST baseFee (script.js lines 476-483)
SmallOrderFee(subtotal, maxBaseFee) ==
  IF subtotal <= SMALL_FEE_THRESHOLD
    THEN maxBaseFee
    ELSE Max2(maxBaseFee
                - Mul(DivWhole(subtotal - SMALL_FEE_THRESHOLD, SMALL_FEE_TAPER), maxBaseFee),
              0)

\* Math.round in the place of Math.ceil
FinalPriceNearest(subtotal, smallOrderFee) == Round(subtotal + smallOrderFee)

\* const finalPrice = Math.ceil(subtotal + smallOrderFee)
FinalPrice(subtotal, smallOrderFee) == Ceil(subtotal + smallOrderFee)

\* round(n, d): to d decimals
round(n, d) == ((n + (SCALE \div (10 ^ d)) \div 2) \div (SCALE \div (10 ^ d))) * (SCALE \div (10 ^ d))

\* the base fees of two rows added up
SumBaseFee(maxBaseFee, matBaseFee) == maxBaseFee + matBaseFee

\* maxBaseFee = Math.max(maxBaseFee, est.matBaseFee)
HigherBaseFee(maxBaseFee, matBaseFee) == Max2(maxBaseFee, matBaseFee)

\* the body of `for (const m of models)`: the running sums after model m
Accumulate(acc, m, est) ==
  [grandGrams    |-> acc.grandGrams + est.gramsTotal,
   grandMinutes  |-> acc.grandMinutes + est.minutesTotal,
   grandSubtotal |-> acc.grandSubtotal + est.sub,
   maxBaseFee    |-> HigherBaseFee(acc.maxBaseFee, est.matBaseFee),
   rowPrice      |-> acc.rowPrice @@ (m.id :> Ceil(est.sub))]

\* for (const m of models) { ... } of recalc: the running sums and the row prices
RECURSIVE RecalcLoop(_, _, _)
RecalcLoop(ms, k, acc) ==
  IF k > Len(ms)
    THEN acc
    ELSE RecalcLoop(ms, k + 1, Accumulate(acc, ms[k], estimateForModel(ms[k])))

\* models.reduce((s,m)=>s+m.qty,0)
RECURSIVE TotalParts(_)
TotalParts(ms) == IF ms = <<>> THEN 0 ELSE ms[1].qty + TotalParts(Tail(ms))

\* the object of the numbers recalc has computed when it reaches its output
QuoteRecord(totalParts, acc, grandMinutes, smallOrderFee) ==
  [totalParts |-> totalParts, grandGrams |-> acc.grandGrams,
   grandMinutes |-> grandMinutes, grandHours |-> DivWhole(grandMinutes, Num(60)),
   subtotal |-> acc.grandSubtotal, maxBaseFee |-> acc.maxBaseFee,
   smallOrderFee |-> smallOrderFee,
   finalPrice |-> FinalPrice(acc.grandSubtotal, smallOrderFee),
   rowPrice |-> acc.rowPrice]

\* the prep overhead charged for every part, whatever the flag says
QuoteOfPrepPerPart(totalParts, acc) ==
  QuoteRecord(totalParts, acc,
    acc.grandMinutes + Mul(PREP_TIME_PER_JOB_MIN, totalParts),
    SmallOrderFee(acc.grandSubtotal, acc.maxBaseFee))

\* prep time, fee and final price from the sums of the loop (lines 470-485)
QuoteOf(totalParts, acc) ==
  QuoteRecord(totalParts, acc,
    acc.grandMinutes
      + Mul(PREP_TIME_PER_JOB_MIN, IF PREP_IS_PER_PART THEN totalParts ELSE Num(1)),
    SmallOrderFee(acc.grandSubtotal, acc.maxBaseFee))

\* the numbers recalc computes for a non-empty list (script.js lines 439-485)
Quote(ms) ==
  QuoteOf(TotalParts(ms),
          RecalcLoop(ms, 1, [grandGrams |-> 0, grandMinutes |-> 0, grandSubtotal |-> 0,
                             maxBaseFee |-> 0, rowPrice |-> <<>>]))

\* el.summary.innerHTML of a quote (script.js lines 488-494)
SummaryOf(ms, q) ==
  [files |-> Len(ms), parts |-> q.totalParts,
   grams |-> round(q.grandGrams, 2),
   hours |-> Floor(q.grandHours),
   minutes |-> Round(Mul(q.grandHours % SCALE, Num(60))),
   printingFee |-> round(q.subtotal, 2),
   smallOrderFee |-> round(q.smallOrderFee, 2)]

\* the payload the download button is given (script.js lines 499-515, without
\* the per-item list)
PayloadOf(ms, q) ==
  [files |-> Len(ms), parts |-> q.totalParts,
   grams |-> round(q.grandGrams, 2),
   minutes |-> Round(q.grandMinutes),
   hours |-> Floor(q.grandHours),
   remMinutes |-> Round(Mul(q.grandHours % SCALE, Num(60))),
   subtotal |-> round(q.subtotal, 2),
   smallOrderFee |-> round(q.smallOrderFee, 2),
   finalPrice |-> q.finalPrice]

(* ================================ STATE ================================ *)
VARIABLES
  models,    \* let models = []: the rows of the quote, in insertion order
  idSeq,     \* let idSeq = 1
  loads,     \* the addFiles invocations suspended at an await
  dom,       \* what the page shows: summary, grand total, row prices, file info
  payload,   \* what the download button would save (its onclick closure)
  console,   \* the signatures of the files console.error has reported
  edits,     \* number of setting changes made so far (bounds the exploration)
  feeCase,   \* one evaluation of the fee and rounding lines of recalc
  meshCase,  \* one call of computeVolume
  partCase,  \* one call of estimateForModel
  calcCase   \* another build of the calculator (src/unnamed): a handler call, or its page

quoteVars == <<models, idSeq, loads, dom, payload, console, edits>>
caseVars == <<feeCase, meshCase, partCase, calcCase>>
vars ==
  <<models, idSeq, loads, dom, payload, console, edits, feeCase, meshCase, partCase, calcCase>>

(* ---- the files a user can pick or drop ---- *)
\* a tetrahedron with legs L on the axes, outward facing: volume L^3 / 6
Tetra(L) ==
  <<L, 0, 0,  0, L, 0,  0, 0, L,    0, 0, 0,  0, L, 0,  L, 0, 0,
    0, 0, 0,  L, 0, 0,  0, 0, L,    0, 0, 0,  0, 0, L,  0, L, 0>>

\* mesh: the position array STLLoader().parse gives when the file parses
FileA == [name |-> "a", ext |-> "stl", size |-> 284, parses |-> TRUE,  mesh |-> Tetra(Num(6))]
FileB == [name |-> "b", ext |-> "STL", size |-> 284, parses |-> TRUE,  mesh |-> Tetra(Num(10))]
FileBad == [name |-> "bad", ext |-> "stl", size |-> 17, parses |-> FALSE, mesh |-> <<>>]
FileTxt == [name |-> "notes", ext |-> "txt", size |-> 5, parses |-> FALSE, mesh |-> <<>>]
Files == {FileA, FileB, FileBad, FileTxt}

MaxId == 2       \* models created in one run
MaxEdits == 1    \* setting changes in one run

\* the file lists picked or dropped in one gesture
Batches ==
  {<<FileA>>, <<FileTxt>>, <<FileA, FileB>>, <<FileBad, FileA>>, <<FileTxt, FileB>>}

\* /\.stl$/i.test(f.name)
IsStl(f) == f.ext \in {"stl", "STL", "Stl", "sTL"}

\* `${file.name}::${file.size}`
sigOf(file) == <<file.name, file.ext, file.size>>

\* fileList.filter(f => /\.stl$/i.test(f.name))
RECURSIVE FilterStl(_)
FilterStl(fs) ==
  IF fs = <<>> THEN <<>>
  ELSE (IF IsStl(fs[1]) THEN <<fs[1]>> ELSE <<>>) \o FilterStl(Tail(fs))

\* innerHTML = '' and a price cell still showing its dash
NoSummary == <<>>
Dash == <<>>

\* updateInfo()
updateInfo(ms) ==
  IF Len(ms) > 0 THEN <<"Total models", Len(ms)>> ELSE <<"No models selected.">>

\* the output half of recalc (script.js lines 488-523) for the numbers q
Show(ms, d, q) ==
  [dom |-> [d EXCEPT !.summary = <<SummaryOf(ms, q)>>,
                     !.grandTotal = <<q.finalPrice>>,
                     !.downloadDisabled = FALSE,
                     !.fileInfo = updateInfo(ms),
                     !.prices = [id \in DOMAIN d.prices |->
                                   IF id \in DOMAIN q.rowPrice
                                     THEN <<q.rowPrice[id]>> ELSE d.prices[id]]],
   payload |-> <<PayloadOf(ms, q)>>]

\* recalc(): the page and the payload after it has run on the list ms
recalc(ms, d, pl) ==
  IF Len(ms) = 0
    THEN [dom |-> [d EXCEPT !.summary = NoSummary, !.grandTotal = NoSummary,
                            !.downloadDisabled = TRUE, !.fileInfo = updateInfo(ms)],
          payload |-> pl]
    ELSE Show(ms, d, Quote(ms))

NoCase == <<>>

QuoteInit ==
  /\ models = <<>>
  /\ idSeq = 1
  /\ loads = <<>>
  /\ console = {}
  /\ dom = [summary |-> NoSummary, grandTotal |-> NoSummary, downloadDisabled |-> TRUE,
            fileInfo |-> <<>>, fileListWrap |-> "none", prices |-> <<>>]
  /\ payload = <<>>
  /\ edits = 0

Init ==
  QuoteInit /\ feeCase = NoCase /\ meshCase = NoCase /\ partCase = NoCase /\ calcCase = NoCase

(* ============================== ADD FILES ============================== *)
\* models.some(m => m._sig === sigOf(f))
IsDuplicate(ms, f) == \E k \in DOMAIN ms : ms[k]._sig = sigOf(f)

\* the for loop of addFiles from its k-th file on, up to the next await: the
\* index of the first file that is not skipped by the dedupe test
RECURSIVE NextToRead(_, _, _)
NextToRead(files, k, ms) ==
  IF k > Len(files) THEN k
  ELSE IF IsDuplicate(ms, files[k]) THEN NextToRead(files, k + 1, ms)
  ELSE k

\* if (added) { ...; updateInfo(); recalc(); } and the return of addFiles
Return(t, ms, d, pl) ==
  IF t.added > 0
    THEN [task |-> <<>>] @@ recalc(ms, [d EXCEPT !.fileListWrap = "block",
                                                 !.fileInfo = updateInfo(ms)], pl)
    ELSE [task |-> <<>>, dom |-> d, payload |-> pl]

\* addFiles suspended at `await f.arrayBuffer()` for its j-th file, or returning
\* when there is no j-th file
SuspendOrReturn(t, j, ms, d, pl) ==
  IF j <= Len(t.files)
    THEN [task |-> <<[t EXCEPT !.i = j, !.pc = "read"]>>, dom |-> d, payload |-> pl]
    ELSE Return(t, ms, d, pl)

\* the whole batch given up at the first failure
Abandon(t, k, ms, d, pl) == Return(t, ms, d, pl)

\* addFiles running on from the k-th file of invocation t until it suspends at
\* `await f.arrayBuffer()` or returns; ms, d, pl: the list, page and payload now.
\* task: <<t'>> when suspended, <<>> when it has returned.
Continue(t, k, ms, d, pl) == SuspendOrReturn(t, NextToRead(t.files, k, ms), ms, d, pl)

\* catch (err) { console.error(...) } and on to the next file of the loop
Caught(t, k, ms, d, pl) == Continue(t, k, ms, d, pl)

\* the invocations in flight are numbered; loads maps the numbers in use to
\* [files, i, pc, added].  Two at a time show every interleaving of a pair.
LoadIds == {1, 2}

\* the models the files from the i-th on can still become
RECURSIVE Creatable(_, _)
Creatable(files, i) ==
  IF i > Len(files) THEN 0
  ELSE (IF files[i].parses THEN 1 ELSE 0) + Creatable(files, i + 1)

\* the ids the invocations in flight may still take
RECURSIVE PendingOf(_)
PendingOf(S) ==
  IF S = {} THEN 0
  ELSE Creatable(loads[CHOOSE x \in S : TRUE].files, loads[CHOOSE x \in S : TRUE].i)
         + PendingOf(S \ {CHOOSE x \in S : TRUE})

Pending == PendingOf(DOMAIN loads)

\* loads with invocation k suspended as task says, or gone when it returned
SetLoad(k, task) ==
  IF task = <<>>
    THEN [x \in DOMAIN loads \ {k} |-> loads[x]]
    ELSE [x \in DOMAIN loads \cup {k} |-> IF x = k THEN task[1] ELSE loads[x]]

\* the least number no invocation in flight has
FreeLoadId == CHOOSE x \in LoadIds \ DOMAIN loads : \A y \in LoadIds \ DOMAIN loads : x <= y

\* async function addFiles(fileList), up to its first await
addFiles(fileList) ==
  /\ DOMAIN loads # LoadIds
  /\ idSeq + Pending + Creatable(FilterStl(fileList), 1) <= MaxId + 1
  /\ IF Len(FilterStl(fileList)) = 0
       THEN /\ dom' = [dom EXCEPT !.fileInfo = <<"Only .stl files are supported.">>]
            /\ UNCHANGED <<models, idSeq, loads, payload, console, edits, caseVars>>
       ELSE \E c \in {Continue([files |-> FilterStl(fileList), i |-> 1, pc |-> "read",
                                added |-> 0], 1, models, dom, payload)} :
              /\ loads' = SetLoad(FreeLoadId, c.task)
              /\ dom' = c.dom
              /\ payload' = c.payload
              /\ UNCHANGED <<models, idSeq, console, edits, caseVars>>

\* el.file 'change' listener
FileChange == \E fileList \in Batches : addFiles(fileList)

\* el.dropZone 'drop' listener
Drop == \E fileList \in Batches : addFiles(fileList)

\* `await f.arrayBuffer()` resumes: parse, computeVolume, then suspend at
\* `await makeThumbnail(g)`; a parse that throws is caught, reported and the
\* loop goes on
ReadDone(k) ==
  /\ loads[k].pc = "read"
  /\ IF loads[k].files[loads[k].i].parses
       THEN /\ loads' = [loads EXCEPT ![k].pc = "thumb"]
            /\ UNCHANGED <<models, idSeq, dom, payload, console, edits, caseVars>>
       ELSE \E c \in {Caught(loads[k], loads[k].i + 1, models, dom, payload)} :
              /\ loads' = SetLoad(k, c.task)
              /\ dom' = c.dom
              /\ payload' = c.payload
              /\ console' = console \cup {sigOf(loads[k].files[loads[k].i])}
              /\ UNCHANGED <<models, idSeq, edits, caseVars>>

\* const volume_mm3 = computeVolume(g) of every file that parses
ParsedVolume == [f \in {x \in Files : x.parses} |-> computeVolume(f.mesh)]

\* the model addFiles creates for file f (script.js lines 190-202)
NewModel(f, id) ==
  [id |-> id, name |-> <<f.name, f.ext>>, _sig |-> sigOf(f),
   volume_mm3 |-> ParsedVolume[f],
   qty |-> Num(1), material |-> "PLA", quality |-> "standard",
   infill |-> Num(15), supports |-> "no"]

\* `await makeThumbnail(g)` resumes: the model is pushed, its row is added and
\* the loop goes on
ThumbDone(k) ==
  /\ loads[k].pc = "thumb"
  /\ \E ms \in {Append(models, NewModel(loads[k].files[loads[k].i], idSeq))} :
     \E c \in {Continue([loads[k] EXCEPT !.added = @ + 1], loads[k].i + 1, ms,
                        [dom EXCEPT !.prices = @ @@ (idSeq :> Dash)], payload)} :
       /\ models' = ms
       /\ idSeq' = idSeq + 1
       /\ loads' = SetLoad(k, c.task)
       /\ dom' = c.dom
       /\ payload' = c.payload
       /\ UNCHANGED <<console, edits, caseVars>>

(* ============================= ROW HANDLERS ============================ *)
\* what a user picks in the selects and types into the number fields
MaterialPicked == {"ABS"}
QualityPicked == {"fine"}
SupportsPicked == {"yes"}
InfillTyped == {"250"}
QtyTyped == {"60"}

\* +text of a number field (NaN for text that is no number)
ToNumber(text) ==
  CASE text = "" -> 0 [] text = "0" -> 0 [] text = "1" -> Num(1) [] text = "3" -> Num(3)
    [] text = "60" -> Num(60) [] text = "100" -> Num(100) [] text = "250" -> Num(250)
    [] text = "15" -> Num(15) [] text = "-3" -> -Num(3) [] text = "2.5" -> Num(5) \div 2
    [] text = "30" -> Num(30) [] text = "11" -> Num(11) [] text = "20" -> Num(20)
    [] OTHER -> NaN

\* parseInt(text, 10)
parseInt(text) ==
  CASE text = "0" -> 0 [] text = "1" -> Num(1) [] text = "3" -> Num(3) [] text = "60" -> Num(60)
    [] text = "100" -> Num(100) [] text = "250" -> Num(250)
    [] text = "15" -> Num(15) [] text = "-3" -> -Num(3) [] text = "2.5" -> Num(2)
    [] text = "30" -> Num(30) [] text = "11" -> Num(11) [] text = "20" -> Num(20)
    [] OTHER -> NaN

\* a || b on numbers: 0 and NaN are falsy
OrElse(a, b) == IF a = 0 \/ a = NaN THEN b ELSE a

\* Math.max(a, b): NaN when an operand is NaN
MathMax(a, b) == IF a = NaN \/ b = NaN THEN NaN ELSE Max2(a, b)

Row(id) == CHOOSE k \in DOMAIN models : models[k].id = id
RowIds == {models[k].id : k \in DOMAIN models}

\* a listener that changes the model and leaves the page as it was
EditToStale(ms) ==
  /\ edits < MaxEdits
  /\ models' = ms
  /\ edits' = edits + 1
  /\ UNCHANGED <<dom, payload, idSeq, loads, console, caseVars>>

\* the tail of every settings listener: recalc() on the edited list
EditTo(ms) ==
  /\ edits < MaxEdits
  /\ \E r \in {recalc(ms, dom, payload)} :
       /\ models' = ms
       /\ dom' = r.dom
       /\ payload' = r.payload
  /\ edits' = edits + 1
  /\ UNCHANGED <<idSeq, loads, console, caseVars>>

\* matSel.onchange
SetMaterial(id, v) == EditTo([models EXCEPT ![Row(id)].material = v])

\* qualSel.onchange
SetQuality(id, v) == EditTo([models EXCEPT ![Row(id)].quality = v])

\* infillIn.oninput
SetInfill(id, text) ==
  EditTo([models EXCEPT ![Row(id)].infill = clamp(OrElse(ToNumber(text), 0), 0, Num(100))])

\* supSel.onchange
SetSupports(id, v) == EditTo([models EXCEPT ![Row(id)].supports = v])

\* qty.oninput
SetQty(id, text) ==
  EditTo([models EXCEPT
            ![Row(id)].qty = MathMax(Num(1), parseInt(IF text = "" THEN "1" ELSE text))])

\* a filter that also drops every model created after the removed one
RECURSIVE WithoutIdOrLater(_, _)
WithoutIdOrLater(ms, id) ==
  IF ms = <<>> THEN <<>>
  ELSE (IF ms[1].id < id THEN <<ms[1]>> ELSE <<>>) \o WithoutIdOrLater(Tail(ms), id)

\* models.filter(m => m.id !== id)
RECURSIVE WithoutId(_, _)
WithoutId(ms, id) ==
  IF ms = <<>> THEN <<>>
  ELSE (IF ms[1].id # id THEN <<ms[1]>> ELSE <<>>) \o WithoutId(Tail(ms), id)

\* the page after rmv.onclick has left the list ms behind (row.remove() done in d)
Removed(ms, d, pl) ==
  IF Len(ms) = 0
    THEN [dom |-> [d EXCEPT !.fileListWrap = "none", !.downloadDisabled = TRUE,
                            !.summary = NoSummary, !.grandTotal = NoSummary,
                            !.fileInfo = updateInfo(ms)],
          payload |-> pl]
    ELSE recalc(ms, [d EXCEPT !.fileInfo = updateInfo(ms)], pl)

\* rmv.onclick
Remove(id) ==
  \E ms \in {WithoutId(models, id)} :
  \E r \in {Removed(ms, [dom EXCEPT !.prices = [x \in DOMAIN dom.prices \ {id} |->
                                                  dom.prices[x]]], payload)} :
    /\ models' = ms
    /\ dom' = r.dom
    /\ payload' = r.payload
    /\ UNCHANGED <<idSeq, loads, console, edits, caseVars>>

Next ==
  \/ FileChange
  \/ Drop
  \/ \E k \in DOMAIN loads : ReadDone(k)
  \/ \E k \in DOMAIN loads : ThumbDone(k)
  \/ \E id \in RowIds, v \in MaterialPicked : SetMaterial(id, v)
  \/ \E id \in RowIds, v \in QualityPicked : SetQuality(id, v)
  \/ \E id \in RowIds, text \in InfillTyped : SetInfill(id, text)
  \/ \E id \in RowIds, v \in SupportsPicked : SetSupports(id, v)
  \/ \E id \in RowIds, text \in QtyTyped : SetQty(id, text)
  \/ \E id \in RowIds : Remove(id)

Spec == Init /\ [][Next]_vars

(* ================== recalc's fee and rounding, case by case ============ *)
FeeGridSteps == 60                 \* subtotals tried: 0 .. FeeGridSteps * 12.5 THB
FeeGridStep == Num(25) \div 2

\* subtotals on the grid and one millionth to either side of the two corners
\* of the taper
Subtotals ==
  {k * FeeGridStep : k \in 0..FeeGridSteps}
    \cup {1, SMALL_FEE_THRESHOLD - 1, SMALL_FEE_THRESHOLD + 1,
          SMALL_FEE_THRESHOLD + SMALL_FEE_TAPER - 1, SMALL_FEE_THRESHOLD + SMALL_FEE_TAPER + 1}

BaseFees == {MATERIALS[k].baseFee : k \in MaterialNames}

\* the sums the loop of recalc hands to lines 470-485
SumsOf(subtotal, maxBaseFee) ==
  [grandGrams |-> 0, grandMinutes |-> 0, grandSubtotal |-> subtotal,
   maxBaseFee |-> maxBaseFee, rowPrice |-> <<>>]

\* lines 475-485 run on a subtotal and a highest base fee
Priced(subtotal, maxBaseFee) ==
  [pc |-> "priced", subtotal |-> subtotal, maxBaseFee |-> maxBaseFee,
   quote |-> QuoteOf(Num(1), SumsOf(subtotal, maxBaseFee))]

FeeInit ==
  /\ QuoteInit
  /\ feeCase \in {[pc |-> "sums", subtotal |-> s, maxBaseFee |-> b, quote |-> <<>>] :
                    s \in Subtotals, b \in BaseFees}
  /\ meshCase = NoCase
  /\ partCase = NoCase
  /\ calcCase = NoCase

\* recalc prices the order
PriceOrder ==
  /\ feeCase.pc = "sums"
  /\ feeCase' = Priced(feeCase.subtotal, feeCase.maxBaseFee)
  /\ UNCHANGED <<quoteVars, meshCase, partCase, calcCase>>

\* recalc prices the same materials again after the subtotal has grown
PriceLargerOrder(subtotal) ==
  /\ feeCase.pc = "priced"
  /\ subtotal > feeCase.subtotal
  /\ feeCase' = Priced(subtotal, feeCase.maxBaseFee)
  /\ UNCHANGED <<quoteVars, meshCase, partCase, calcCase>>

FeeNext ==
  \/ PriceOrder
  \/ \E subtotal \in Subtotals : PriceLargerOrder(subtotal)

SpecFee == FeeInit /\ [][FeeNext]_vars

(* ====================== computeVolume, mesh by mesh ==================== *)
MaxTriangles == 2                  \* triangles of a mesh

\* four points in general position, coordinates in tenths of a millimetre
MeshPoints ==
  <<  <<1500000, 0, 500000>>,  <<0, 2000000, 0>>,
      <<500000, 500000, 3000000>>,  <<-1000000, 500000, 1000000>>  >>

\* the four faces of the tetrahedron on MeshPoints, each in both windings
Faces ==
  { <<1, 2, 3>>, <<1, 3, 2>>, <<1, 2, 4>>, <<1, 4, 2>>,
    <<1, 3, 4>>, <<1, 4, 3>>, <<2, 3, 4>>, <<2, 4, 3>> }

TriangleOf(f) == MeshPoints[f[1]] \o MeshPoints[f[2]] \o MeshPoints[f[3]]

RECURSIVE MeshesOf(_)
MeshesOf(n) ==
  IF n = 0 THEN {<<>>}
  ELSE {TriangleOf(f) \o rest : f \in Faces, rest \in MeshesOf(n - 1)}

Meshes == UNION {MeshesOf(n) : n \in 1..MaxTriangles}

\* every triangle <<A, B, C>> turned into <<A, C, B>>
ReverseWinding(a) ==
  [j \in 1..Len(a) |->
     IF (j - 1) % 9 < 3 THEN a[j]
     ELSE IF (j - 1) % 9 < 6 THEN a[j + 3]
     ELSE a[j - 3]]

\* every coordinate times s
ScaleBy(a, s) == [j \in 1..Len(a) |-> Mul(s, a[j])]

ScaleFactors == {Num(2), SCALE \div 2, 0, -Num(1)}
CutLengths == {1, 4, 8}

\* computeVolume called on the array a; base: its result on the array a was made from
Measured(op, factor, a, base) ==
  [op |-> op, factor |-> factor, positions |-> a, base |-> base,
   result |-> CallComputeVolume(a)]

VolumeInit ==
  /\ QuoteInit
  /\ feeCase = NoCase
  /\ meshCase \in {[op |-> "mesh", factor |-> SCALE, positions |-> a, base |-> 0,
                    result |-> <<>>] : a \in Meshes}
  /\ partCase = NoCase
  /\ calcCase = NoCase

Measure ==
  /\ meshCase.op = "mesh"
  /\ meshCase' = Measured("measured", SCALE, meshCase.positions, 0)
  /\ UNCHANGED <<quoteVars, feeCase, partCase, calcCase>>

MeasureReversed ==
  /\ meshCase.op = "measured"
  /\ meshCase' = Measured("reversed", SCALE, ReverseWinding(meshCase.positions),
                          meshCase.result.value)
  /\ UNCHANGED <<quoteVars, feeCase, partCase, calcCase>>

MeasureScaled(s) ==
  /\ meshCase.op = "measured"
  /\ meshCase' = Measured("scaled", s, ScaleBy(meshCase.positions, s), meshCase.result.value)
  /\ UNCHANGED <<quoteVars, feeCase, partCase, calcCase>>

\* the array with its last n coordinates missing
MeasureCut(n) ==
  /\ meshCase.op = "measured"
  /\ meshCase' = Measured("cut", SCALE,
                          SubSeq(meshCase.positions, 1, Len(meshCase.positions) - n),
                          meshCase.result.value)
  /\ UNCHANGED <<quoteVars, feeCase, partCase, calcCase>>

VolumeNext ==
  \/ Measure
  \/ MeasureReversed
  \/ \E s \in ScaleFactors : MeasureScaled(s)
  \/ \E n \in CutLengths : MeasureCut(n)

SpecVolume == VolumeInit /\ [][VolumeNext]_vars

(* ================== estimateForModel, model by model =================== *)
MassVolumeSteps == 4               \* volumes tried: 0 .. MassVolumeSteps * 125 mm^3
MassVolumeStep == Num(125)

\* the grid, and the 1000 mm^3 (1 cm^3) part
PartVolumes == {k * MassVolumeStep : k \in 0..MassVolumeSteps} \cup {Num(1000)}
PartInfills == {0, Num(15), Num(50), Num(100)}

PartQtys == {Num(1), Num(3)}

PartModels ==
  {[volume_mm3 |-> v, material |-> mat, quality |-> q, infill |-> p,
    supports |-> sup, qty |-> n] :
     v \in PartVolumes, mat \in MaterialNames, q \in QualityNames, p \in PartInfills,
     sup \in {"no", "yes"}, n \in PartQtys}

\* estimateForModel(m) called; minPerPart: its local timeMinPerPart
EstimatedAs(m, call) ==
  [pc |-> "estimated", m |-> m, threw |-> call.threw, est |-> call.value,
   minPerPart |-> timeMinPerPart(m)]

Estimated(m) == EstimatedAs(m, CallEstimateForModel(m))

MassInit ==
  /\ QuoteInit
  /\ feeCase = NoCase
  /\ meshCase = NoCase
  /\ partCase \in {[pc |-> "model", m |-> m, threw |-> "nothing", est |-> <<>>,
                      minPerPart |-> 0] :
                     m \in PartModels}
  /\ calcCase = NoCase

EstimatePart ==
  /\ partCase.pc = "model"
  /\ partCase' = Estimated(partCase.m)
  /\ UNCHANGED <<quoteVars, feeCase, meshCase, calcCase>>

\* one input of the model changed, the estimate made again
EstimateChanged(m) ==
  /\ partCase.pc = "estimated"
  /\ partCase' = Estimated(m)
  /\ UNCHANGED <<quoteVars, feeCase, meshCase, calcCase>>

LargerVolume ==
  \E v \in PartVolumes :
    v > partCase.m.volume_mm3 /\ EstimateChanged([partCase.m EXCEPT !.volume_mm3 = v])

DenserMaterial ==
  \E mat \in MaterialNames :
    /\ partCase.pc = "estimated"
    /\ MATERIALS[mat].density_g_cm3 > MATERIALS[partCase.m.material].density_g_cm3
    /\ EstimateChanged([partCase.m EXCEPT !.material = mat])

MoreInfill ==
  \E p \in PartInfills :
    p > partCase.m.infill /\ EstimateChanged([partCase.m EXCEPT !.infill = p])

WithSupports ==
  partCase.m.supports = "no" /\ EstimateChanged([partCase.m EXCEPT !.supports = "yes"])

SlowerTier ==
  \E q \in QualityNames :
    /\ partCase.pc = "estimated"
    /\ QUALITY_SPEED[q] < QUALITY_SPEED[partCase.m.quality]
    /\ EstimateChanged([partCase.m EXCEPT !.quality = q])

MoreParts ==
  \E n \in PartQtys :
    n > partCase.m.qty /\ EstimateChanged([partCase.m EXCEPT !.qty = n])

\* keys that are in no table of the CONFIG
UnlistedTiers == {"ultra"}
UnlistedMaterials == {"Nylon"}

\* estimateForModel called on a model whose settings hold an unlisted key
EstimateUnlisted(m) ==
  /\ partCase.pc = "model"
  /\ partCase' = [Estimated(m) EXCEPT !.pc = "unlisted"]
  /\ UNCHANGED <<quoteVars, feeCase, meshCase, calcCase>>

UnlistedTier ==
  \E t \in UnlistedTiers : EstimateUnlisted([partCase.m EXCEPT !.quality = t])

UnlistedMaterial ==
  \E mat \in UnlistedMaterials : EstimateUnlisted([partCase.m EXCEPT !.material = mat])

MassNext ==
  \/ EstimatePart
  \/ LargerVolume
  \/ DenserMaterial
  \/ MoreInfill
  \/ WithSupports
  \/ SlowerTier
  \/ MoreParts
  \/ UnlistedTier
  \/ UnlistedMaterial

SpecMass == MassInit /\ [][MassNext]_vars

(* ============ the other builds of the calculator (src/unnamed) ========= *)
\* texts a user can leave in a number field
InfillTexts == {"", "15", "100", "250", "-3"}
QtyTexts == {"", "1", "3", "2.5", "-3", "abc"}

\* ---- the single-file calibrated estimator (src/unnamed/part_008) ----
\* const QUALITY_SPEED = { draft: 320, standard: 230, fine: 140 }
CalibratedSpeed ==
  [k \in QualityNames |->
     CASE k = "draft" -> Num(320) [] k = "standard" -> Num(230) [] k = "fine" -> Num(140)]

\* const infill = clamp(+el.infill.value || 0, 0, 100)
CalibratedInfill(text) == clamp(OrElse(ToNumber(text), 0), 0, Num(100))

\* const qty = Math.max(1, +el.qty.value || 1)
CalibratedQty(text) == MathMax(Num(1), OrElse(ToNumber(text), Num(1)))

\* const gramsPerPart = grams_raw * fillFactor * supportMass * CALIBRATION_MULT
\*                      + WASTE_GRAMS_PER_PART
CalibratedGramsPerPart(volume_mm3, matKey, infill, supports) ==
  Mul(Mul(Mul(Mul(DivWhole(volume_mm3, Num(1000)), MATERIALS[matKey].density_g_cm3),
              SHELL_BASE + Mul(INFILL_PORTION, DivWhole(infill, Num(100)))),
          IF supports = "yes" THEN SUPPORT_MASS_MULT ELSE SCALE),
      CALIBRATION_MULT)
    + WASTE_GRAMS_PER_PART

\* const timeMinPerPart = (model.volume_mm3 / baseSpeed) * timeMult
CalibratedTimeMinPerPart(volume_mm3, quality, infill, supports) ==
  Mul(DivWhole(volume_mm3, CalibratedSpeed[quality]),
      Mul(INFILL_TIME_MULT(infill), SUPPORT_TIME_MULT(supports)))

\* the fee lines, the final price and the values the page and the payload show
CalibratedPriced(matKey, qty, perPart, minPerPart, totalGrams, totalMinutes, materialCost, printCost, smallOrderFee) ==
  [filament |-> matKey, quantity |-> qty, gramsPerPart |-> perPart,
   timeMinPerPart |-> minPerPart, totalGrams |-> totalGrams,
   totalMinutes |-> totalMinutes, materialCost |-> materialCost,
   printCost |-> printCost, subtotal |-> materialCost + printCost,
   smallOrderFee |-> smallOrderFee,
   finalPrice |-> Ceil(materialCost + printCost + smallOrderFee)]

CalibratedCosts(matKey, qty, perPart, minPerPart, totalGrams, totalMinutes, materialCost, printCost) ==
  CalibratedPriced(matKey, qty, perPart, minPerPart, totalGrams, totalMinutes,
                   materialCost, printCost,
                   SmallOrderFee(materialCost + printCost, MATERIALS[matKey].baseFee))

\* const materialCost = totalGrams * mat.rate
\* const printCost = totalHours * PRINT_RATE_PER_HOUR, totalHours = totalMinutes / 60
CalibratedTotals(matKey, qty, perPart, minPerPart, totalGrams, totalMinutes) ==
  CalibratedCosts(matKey, qty, perPart, minPerPart, totalGrams, totalMinutes,
                  Mul(totalGrams, MATERIALS[matKey].rate),
                  Mul(DivWhole(totalMinutes, Num(60)), PRINT_RATE_PER_HOUR))

\* const prepMinutes = PREP_TIME_PER_JOB_MIN * (PREP_IS_PER_PART ? qty : 1)
\* const totalMinutes = timeMinPerPart * qty + prepMinutes
CalibratedPerPart(matKey, qty, perPart, minPerPart) ==
  CalibratedTotals(matKey, qty, perPart, minPerPart, Mul(perPart, qty),
                   Mul(minPerPart, qty)
                     + Mul(PREP_TIME_PER_JOB_MIN, IF PREP_IS_PER_PART THEN qty ELSE SCALE))

CalibratedSettings(volume_mm3, matKey, quality, infill, supports, qty) ==
  CalibratedPerPart(matKey, qty,
                    CalibratedGramsPerPart(volume_mm3, matKey, infill, supports),
                    CalibratedTimeMinPerPart(volume_mm3, quality, infill, supports))

\* el.calcBtn 'click' listener; in: the loaded model's volume and the form's values
CalibratedQuote(in) ==
  CalibratedSettings(in.volume_mm3, in.material, in.quality,
                     CalibratedInfill(in.infill), in.supports, CalibratedQty(in.qty))

CalibratedForms ==
  {[volume_mm3 |-> v, material |-> mat, quality |-> q, infill |-> p, supports |-> sup,
    qty |-> n] :
     v \in PartVolumes, mat \in MaterialNames, q \in QualityNames, p \in InfillTexts,
     sup \in {"no", "yes"}, n \in QtyTexts}

\* ---- the batch calculator with shared settings (src/unnamed/part_006) ----
\* const timeMinPerPart = (m.volume_mm3 / baseSpeed) * timeMult
BatchTimeMinPerPart(volume_mm3, quality, infill, supports) ==
  Mul(DivWhole(volume_mm3, QUALITY_SPEED[quality]),
      Mul(INFILL_TIME_MULT(infill), SUPPORT_TIME_MULT(supports)))

\* for (const m of models) { ... totalGrams += gramsThis; totalMinutes += minutesThis }
RECURSIVE BatchLoop(_, _, _, _, _, _, _, _)
BatchLoop(ms, k, matKey, quality, infill, supports, totalGrams, totalMinutes) ==
  IF k > Len(ms)
    THEN [totalGrams |-> totalGrams, totalMinutes |-> totalMinutes]
    ELSE BatchLoop(ms, k + 1, matKey, quality, infill, supports,
                   totalGrams
                     + Mul(CalibratedGramsPerPart(ms[k].volume_mm3, matKey, infill, supports),
                           ms[k].qty),
                   totalMinutes
                     + Mul(BatchTimeMinPerPart(ms[k].volume_mm3, quality, infill, supports),
                           ms[k].qty))

\* the fee lines, the final price and the totals the page and the payload show
BatchPriced(matKey, totalParts, totalGrams, loopMinutes, totalMinutes, materialCost, printCost, smallOrderFee) ==
  [material |-> matKey, totalParts |-> totalParts, totalGrams |-> totalGrams,
   loopMinutes |-> loopMinutes, totalMinutes |-> totalMinutes,
   materialCost |-> materialCost, printCost |-> printCost,
   subtotal |-> materialCost + printCost, smallOrderFee |-> smallOrderFee,
   finalPrice |-> Ceil(materialCost + printCost + smallOrderFee)]

BatchCosts(matKey, totalParts, totalGrams, loopMinutes, totalMinutes, materialCost, printCost) ==
  BatchPriced(matKey, totalParts, totalGrams, loopMinutes, totalMinutes, materialCost,
              printCost, SmallOrderFee(materialCost + printCost, MATERIALS[matKey].baseFee))

\* const totalHours = totalMinutes / 60; materialCost = totalGrams * mat.rate;
\* printCost = totalHours * PRINT_RATE_PER_HOUR
BatchTotals(matKey, totalParts, totalGrams, loopMinutes, totalMinutes) ==
  BatchCosts(matKey, totalParts, totalGrams, loopMinutes, totalMinutes,
             Mul(totalGrams, MATERIALS[matKey].rate),
             Mul(DivWhole(totalMinutes, Num(60)), PRINT_RATE_PER_HOUR))

\* totalMinutes += PREP_TIME_PER_JOB_MIN * (PREP_IS_PER_PART ? totalParts : 1)
BatchWithPrep(matKey, totalParts, sums) ==
  BatchTotals(matKey, totalParts, sums.totalGrams, sums.totalMinutes,
              sums.totalMinutes
                + Mul(PREP_TIME_PER_JOB_MIN, IF PREP_IS_PER_PART THEN totalParts ELSE SCALE))

\* el.calcBtn 'click' listener; in: the list of models and the shared form's values
BatchQuote(in) ==
  BatchWithPrep(in.material, TotalParts(in.models),
                BatchLoop(in.models, 1, in.material, in.quality,
                          CalibratedInfill(in.infill), in.supports, 0, 0))

BatchRows == {[volume_mm3 |-> v, qty |-> n] : v \in PartVolumes, n \in PartQtys}

\* lists of one model, and of two with a second model of 125 mm^3 in 3 copies
BatchLists ==
  {<<r>> : r \in BatchRows}
    \cup {<<r, [volume_mm3 |-> MassVolumeStep, qty |-> Num(3)]>> : r \in BatchRows}

BatchForms ==
  {[models |-> ms, material |-> mat, quality |-> q, infill |-> p, supports |-> sup] :
     ms \in BatchLists,
     mat \in MaterialNames, q \in QualityNames, p \in {"15", "250"}, sup \in {"no", "yes"}}

\* ---- the per-row quote builds (src/unnamed/part_001, src/unnamed/part_002) ----
ConfigMaterialNames == {"PLA", "ABS", "PETG"}

\* const CONFIG = { materials, defaultMaterial, gramsPerHour, ... }, the same in
\* both builds
CONFIG ==
  [materials |->
     [k \in ConfigMaterialNames |->
        CASE k = "PLA"    -> [density |-> 1240000, pricePerKg |-> Num(500)]
          [] k = "ABS"    -> [density |-> 1040000, pricePerKg |-> Num(550)]
          [] k = "PETG"   -> [density |-> 1270000, pricePerKg |-> Num(520)]],
   defaultMaterial |-> "PLA",
   gramsPerHour |-> Num(25),
   machineRatePerHour |-> Num(25),
   electricityRatePerHour |-> Num(5),
   minCharge |-> Num(60),
   margin |-> 1250000]

\* return base + (infillPercent / 100) * infillEff
calcUsageFactor(infillPercent) == 250000 + Mul(DivWhole(infillPercent, Num(100)), 750000)

\* the key of CONFIG.materials[materialKey] || CONFIG.materials[CONFIG.defaultMaterial]
PricedMaterial(materialKey) ==
  IF materialKey \in DOMAIN CONFIG.materials THEN materialKey ELSE CONFIG.defaultMaterial

\* subtotal = (materialCost + machineCost + elecCost) * margin;
\* unitPrice = Math.max(CONFIG.minCharge, subtotal); the returned object
PricingSum(pricedAs, volumeCm3, rawWeightG, printWeightG, printTimeHr, materialCost, machineCost, elecCost) ==
  [pricedAs |-> pricedAs, volumeCm3 |-> volumeCm3, rawWeightG |-> rawWeightG,
   printWeightG |-> printWeightG, materialCost |-> materialCost,
   machineCost |-> machineCost, elecCost |-> elecCost,
   unitPrice |-> Max2(CONFIG.minCharge,
                      Mul(materialCost + machineCost + elecCost, CONFIG.margin)),
   printTimeHr |-> printTimeHr]

\* machineCost = printTimeHr * machineRatePerHour; elecCost = printTimeHr * electricityRatePerHour
PricingCosts(pricedAs, volumeCm3, rawWeightG, printWeightG, printTimeHr, materialCost) ==
  PricingSum(pricedAs, volumeCm3, rawWeightG, printWeightG, printTimeHr, materialCost,
             Mul(printTimeHr, CONFIG.machineRatePerHour),
             Mul(printTimeHr, CONFIG.electricityRatePerHour))

\* printTimeHr = printWeightG / gramsPerHour;
\* materialCost = (printWeightG / 1000) * material.pricePerKg
PricingTimed(pricedAs, volumeCm3, rawWeightG, printWeightG) ==
  PricingCosts(pricedAs, volumeCm3, rawWeightG, printWeightG,
               DivWhole(printWeightG, CONFIG.gramsPerHour),
               Mul(DivWhole(printWeightG, Num(1000)), CONFIG.materials[pricedAs].pricePerKg))

\* rawWeightG = volumeCm3 * density; printWeightG = rawWeightG * usageFactor
PricingWeights(pricedAs, volumeCm3, rawWeightG, usageFactor) ==
  PricingTimed(pricedAs, volumeCm3, rawWeightG, Mul(rawWeightG, usageFactor))

PricingVolume(pricedAs, volumeCm3, infillPercent) ==
  PricingWeights(pricedAs, volumeCm3, Mul(volumeCm3, CONFIG.materials[pricedAs].density),
                 calcUsageFactor(infillPercent))

\* calculatePricing({ volumeMm3, materialKey, infillPercent }); pricedAs: the
\* material whose density and price were used
calculatePricing(volumeMm3, materialKey, infillPercent) ==
  PricingVolume(PricedMaterial(materialKey), DivWhole(volumeMm3, Num(1000)), infillPercent)

\* the model after the assignments of updateModelFromRow, and what the call threw
UpdatedModel(volumeMm3, mat, infill, qty, pricing) ==
  [threw |-> "nothing", volumeMm3 |-> volumeMm3, material |-> mat, infill |-> infill,
   qty |-> qty, volumeCm3 |-> pricing.volumeCm3, printWeightG |-> pricing.printWeightG,
   unitPrice |-> pricing.unitPrice, lineTotal |-> Mul(pricing.unitPrice, qty),
   pricedAs |-> pricing.pricedAs]

UpdateModelWith(volumeMm3, mat, infill, qty) ==
  UpdatedModel(volumeMm3, mat, infill, qty, calculatePricing(volumeMm3, mat, infill))

\* part_001: infill = clamp(Number(...) || 0, 0, 100); qty = Math.max(1, Number(...) || 1)
updateModelFromRow_001(in) ==
  UpdateModelWith(in.volumeMm3, in.mat, clamp(OrElse(ToNumber(in.infill), 0), 0, Num(100)),
                  MathMax(Num(1), OrElse(ToNumber(in.qty), Num(1))))

\* part_002: infill = Number(...) || 0; qty = Math.max(1, Number(...) || 1)
updateModelFromRow_002(in) ==
  UpdateModelWith(in.volumeMm3, in.mat, OrElse(ToNumber(in.infill), 0),
                  MathMax(Num(1), OrElse(ToNumber(in.qty), Num(1))))

\* a row of a loaded model: its volume and the values of its three fields
RowForms ==
  {[volumeMm3 |-> v, mat |-> mat, infill |-> p, qty |-> n] :
     v \in PartVolumes, mat \in ConfigMaterialNames \cup UnlistedMaterials,
     p \in InfillTexts, n \in QtyTexts}

\* ---- the margin/VAT build (src/unnamed/part_005) ----
MarginVatMaterialNames == {"PLA", "PETG", "PETG-CF"}

\* const MATERIALS = { PLA: { density_g_cm3, cost_per_kg_thb }, ... }
MarginVatMaterials ==
  [k \in MarginVatMaterialNames |->
     CASE k = "PLA"     -> [density_g_cm3 |-> 1240000, cost_per_kg_thb |-> Num(450)]
       [] k = "PETG"    -> [density_g_cm3 |-> 1270000, cost_per_kg_thb |-> Num(500)]
       [] k = "PETG-CF" -> [density_g_cm3 |-> 1300000, cost_per_kg_thb |-> Num(750)]]

\* const QUALITY_SPEED = { draft: 600, standard: 420, fine: 260 }
MarginVatSpeed ==
  [k \in QualityNames |->
     CASE k = "draft" -> Num(600) [] k = "standard" -> Num(420) [] k = "fine" -> Num(260)]

\* const SUPPORT_TIME_MULTIPLIER = { yes: 1.15, no: 1.0 }
SUPPORT_TIME_MULTIPLIER == [k \in {"yes", "no"} |-> IF k = "yes" THEN 1150000 ELSE SCALE]

\* const INFILL_TIME_MULTIPLIER = (infillPct) => 0.85 + (infillPct / 100) * 0.6
INFILL_TIME_MULTIPLIER(infillPct) == 850000 + Mul(DivWhole(infillPct, Num(100)), 600000)

\* const with_margin = subtotal * (1 + margin_pct / 100);
\* const with_vat = with_margin * (1 + vat_pct / 100)
WithMarginAndVat(amount, margin_pct, vat_pct) ==
  Mul(Mul(amount, SCALE + DivWhole(margin_pct, Num(100))),
      SCALE + DivWhole(vat_pct, Num(100)))

\* grand_total = per_part_total * qty, and the numbers of the returned object
MarginVatTotals(c, qty, subtotal, per_part_total) ==
  [mass_g |-> c.mass_g, est_time_min |-> c.est_time_min, base_fee |-> c.baseFee,
   material_cost |-> c.material_cost, machine_cost |-> c.machine_cost,
   post_process_fee |-> c.ops_fee, min_order |-> c.min_order,
   subtotal_after_min_threshold |-> subtotal, margin_pct |-> c.margin_pct,
   vat_pct |-> c.vat_pct, per_part_total |-> per_part_total,
   grand_total |-> Mul(per_part_total, qty), quantity |-> qty]

\* the minimum order enforced on the total after margin and VAT
MarginVatFloorLast(c, qty, summed) ==
  MarginVatTotals(c, qty, summed,
                  Max2(WithMarginAndVat(summed, c.margin_pct, c.vat_pct), c.min_order))

\* if (subtotal < min_order) subtotal = min_order; then margin and VAT
MarginVatFloor(c, qty, summed) ==
  MarginVatTotals(c, qty, IF summed < c.min_order THEN c.min_order ELSE summed,
                  WithMarginAndVat(IF summed < c.min_order THEN c.min_order ELSE summed,
                                   c.margin_pct, c.vat_pct))

\* let subtotal = baseFee + material_cost + machine_cost + ops_fee
MarginVatSum(c, qty) ==
  MarginVatFloor(c, qty, c.baseFee + c.material_cost + c.machine_cost + c.ops_fee)

\* material_cost = (mass_g / 1000) * mat.cost_per_kg_thb;
\* machine_cost = (est_time_min / 60) * machine_hr; the fee fields read with Number()
MarginVatCosts(in, qty, mass_g, est_time_min) ==
  MarginVatSum([mass_g |-> mass_g, est_time_min |-> est_time_min,
                baseFee |-> ToNumber(in.baseFee),
                material_cost |->
                  Mul(DivWhole(mass_g, Num(1000)),
                      MarginVatMaterials[in.material].cost_per_kg_thb),
                machine_cost |-> Mul(DivWhole(est_time_min, Num(60)), ToNumber(in.machHr)),
                ops_fee |-> ToNumber(in.ppFee), min_order |-> ToNumber(in.minThresh),
                margin_pct |-> ToNumber(in.margin), vat_pct |-> ToNumber(in.vat)],
               qty)

\* calculatePrice(metrics); in: metrics.volume_mm3 and the values of the form
calculatePrice(in) ==
  MarginVatCosts(in, MathMax(Num(1), ToNumber(in.qty)),
                 Mul(DivWhole(in.volume_mm3, Num(1000)),
                     MarginVatMaterials[in.material].density_g_cm3),
                 Mul(DivWhole(in.volume_mm3, MarginVatSpeed[in.quality]),
                     Mul(SUPPORT_TIME_MULTIPLIER[in.supports],
                         INFILL_TIME_MULTIPLIER(clamp(ToNumber(in.infill), 0, Num(100))))))

MarginVatForms ==
  {[volume_mm3 |-> v, material |-> mat, quality |-> q, infill |-> p, supports |-> sup,
    qty |-> n, baseFee |-> bf, machHr |-> mh, ppFee |-> pp, minThresh |-> mo,
    margin |-> mg, vat |-> vt] :
     v \in PartVolumes, mat \in MarginVatMaterialNames, q \in {"standard", "fine"},
     p \in {"15", "250"}, sup \in {"no", "yes"}, n \in {"", "3", "2.5"},
     bf \in {"0", "60"}, mh \in {"15"}, pp \in {"0", "15"}, mo \in {"", "100"},
     mg \in {"0", "15"}, vt \in {"0", "3"}}

Builds == {"part_001", "part_002", "part_005", "part_006", "part_008"}

\* the forms a user can have filled in when the handler of the build runs
FormsOf(b) ==
  CASE b = "part_001" -> RowForms
    [] b = "part_002" -> RowForms
    [] b = "part_005" -> MarginVatForms
    [] b = "part_006" -> BatchForms
    [] b = "part_008" -> CalibratedForms

VariantInit ==
  /\ QuoteInit
  /\ feeCase = NoCase
  /\ meshCase = NoCase
  /\ partCase = NoCase
  /\ \E b \in Builds :
       calcCase \in {[build |-> b, pc |-> "form", in |-> f, out |-> <<>>] : f \in FormsOf(b)}

\* part_008: a click on Calculate with a model loaded
CalibratedClick ==
  /\ calcCase.build = "part_008"
  /\ calcCase.pc = "form"
  /\ calcCase' = [calcCase EXCEPT !.pc = "priced", !.out = CalibratedQuote(calcCase.in)]
  /\ UNCHANGED <<quoteVars, feeCase, meshCase, partCase>>

\* part_006: a click on Calculate with models in the list
BatchClick ==
  /\ calcCase.build = "part_006"
  /\ calcCase.pc = "form"
  /\ calcCase' = [calcCase EXCEPT !.pc = "priced", !.out = BatchQuote(calcCase.in)]
  /\ UNCHANGED <<quoteVars, feeCase, meshCase, partCase>>

\* part_001: a change or input event on a field of the row
UpdateRow_001 ==
  /\ calcCase.build = "part_001"
  /\ calcCase.pc = "form"
  /\ calcCase' = [calcCase EXCEPT !.pc = "priced", !.out = updateModelFromRow_001(calcCase.in)]
  /\ UNCHANGED <<quoteVars, feeCase, meshCase, partCase>>

\* part_002: a change or input event on a field of the row
UpdateRow_002 ==
  /\ calcCase.build = "part_002"
  /\ calcCase.pc = "form"
  /\ calcCase' = [calcCase EXCEPT !.pc = "priced", !.out = updateModelFromRow_002(calcCase.in)]
  /\ UNCHANGED <<quoteVars, feeCase, meshCase, partCase>>

\* part_005: a click on Calculate with a model loaded
MarginVatClick ==
  /\ calcCase.build = "part_005"
  /\ calcCase.pc = "form"
  /\ calcCase' = [calcCase EXCEPT !.pc = "priced", !.out = calculatePrice(calcCase.in)]
  /\ UNCHANGED <<quoteVars, feeCase, meshCase, partCase>>

VariantNext ==
  \/ MarginVatClick
  \/ UpdateRow_001
  \/ UpdateRow_002
  \/ CalibratedClick
  \/ BatchClick

SpecVariants == VariantInit /\ [][VariantNext]_vars

(* ======= the single-file estimator's file loading (src/unnamed/part_008) ====== *)
MaxPicks == 3    \* file selections in one run

\* e.target.files?.[0] of a change event that carries no file
NoFile == [name |-> "", ext |-> "", size |-> 0, parses |-> FALSE, mesh |-> <<>>]

\* g.boundingBox.max - g.boundingBox.min on one axis; the coordinates of axis
\* r are the entries i of the position array with i % 3 = r
AxisValues(a, r) == {a[i] : i \in {j \in DOMAIN a : j % 3 = r}}
Extent(a, r) ==
  (CHOOSE hi \in AxisValues(a, r) : \A v \in AxisValues(a, r) : v <= hi)
    - (CHOOSE lo \in AxisValues(a, r) : \A v \in AxisValues(a, r) : lo <= v)

\* model.volume_mm3 = computeVolume(g); model.bbox = { x, y, z }
MetricsOf(f) ==
  [volume_mm3 |-> ParsedVolume[f],
   bbox |-> [x |-> Extent(f.mesh, 1), y |-> Extent(f.mesh, 2), z |-> Extent(f.mesh, 0)]]

\* let model = { volume_mm3: 0, bbox: {x:0,y:0,z:0} }; the button and the
\* outputs as resetOutputs leaves them; reads: the listener invocations that
\* are suspended at `await file.arrayBuffer()`, numbered by their selection
SingleInit ==
  /\ QuoteInit
  /\ feeCase = NoCase
  /\ meshCase = NoCase
  /\ partCase = NoCase
  /\ calcCase = [build |-> "part_008", pc |-> "page", selected |-> NoFile, picks |-> 0,
                 reads |-> {},
                 model |-> [volume_mm3 |-> 0, bbox |-> [x |-> 0, y |-> 0, z |-> 0]],
                 calcBtnDisabled |-> TRUE, fileInfo |-> <<>>, summary |-> <<>>]

\* function resetOutputs()
resetOutputs(page) == [page EXCEPT !.summary = <<>>, !.calcBtnDisabled = TRUE]

\* el.file 'change' listener up to its await (or to its return)
SelectedFile(page, file) ==
  IF file = NoFile THEN page
  ELSE IF ~IsStl(file) THEN [page EXCEPT !.fileInfo = <<"Please choose a .stl file.">>]
  ELSE [page EXCEPT !.fileInfo = <<"Selected", file.name>>,
                    !.reads = @ \cup {[pick |-> page.picks + 1, file |-> file]}]

SelectFile ==
  /\ calcCase.picks < MaxPicks
  /\ \E file \in Files \cup {NoFile} :
       calcCase' = [SelectedFile(resetOutputs(calcCase), file)
                      EXCEPT !.selected = file, !.picks = calcCase.picks + 1]
  /\ UNCHANGED <<quoteVars, feeCase, meshCase, partCase>>

\* the listener resumed after `await file.arrayBuffer()`: the try block to its
\* end, or the catch block when the parse throws
LoadedFile(page, read) ==
  IF read.file.parses
    THEN [page EXCEPT !.model = MetricsOf(read.file), !.calcBtnDisabled = FALSE,
                      !.reads = @ \ {read}]
    ELSE [page EXCEPT !.fileInfo = <<"Could not parse STL (file invalid).">>,
                      !.calcBtnDisabled = TRUE, !.reads = @ \ {read}]

FileRead ==
  /\ \E read \in calcCase.reads : calcCase' = LoadedFile(calcCase, read)
  /\ UNCHANGED <<quoteVars, feeCase, meshCase, partCase>>

\* the values of the form when Calculate is clicked
SingleForms ==
  {[material |-> "PLA", quality |-> "standard", infill |-> "15", supports |-> "no",
    qty |-> n] : n \in {"1", "3"}}

\* el.calcBtn 'click' listener, on the stored model.volume_mm3
Calculate ==
  /\ ~calcCase.calcBtnDisabled
  /\ \E form \in SingleForms :
       calcCase' =
         [calcCase EXCEPT
            !.summary = CalibratedQuote([volume_mm3 |-> calcCase.model.volume_mm3]
                                          @@ form)]
  /\ UNCHANGED <<quoteVars, feeCase, meshCase, partCase>>

SingleNext ==
  \/ SelectFile
  \/ FileRead
  \/ Calculate

SpecSingle == SingleInit /\ [][SingleNext]_vars

(* ============ the quote page, one gesture run to its end at a time ========= *)
\* the volumes of the meshes loaded, and what is picked and typed in the rows
ListVolumes == {Num(1000)}
ListQtyTyped == {"1", "30", "60"}

\* the model addFiles creates (script.js lines 190-202) for a mesh of volume v
LoadedModel(id, v) ==
  [id |-> id, name |-> <<"part", "stl">>, _sig |-> <<"part", "stl", id>>,
   volume_mm3 |-> v,
   qty |-> Num(1), material |-> "PLA", quality |-> "standard",
   infill |-> Num(15), supports |-> "no"]

\* addFiles([f]) with no other invocation in flight, from its call to its return
LoadOne ==
  /\ idSeq <= MaxId
  /\ \E v \in ListVolumes :
     \E ms \in {Append(models, LoadedModel(idSeq, v))} :
     \E r \in {Return([added |-> 1], ms, [dom EXCEPT !.prices = @ @@ (idSeq :> Dash)],
                      payload)} :
       /\ models' = ms
       /\ idSeq' = idSeq + 1
       /\ dom' = r.dom
       /\ payload' = r.payload
  /\ UNCHANGED <<loads, console, edits, caseVars>>

\* a settings listener: the model changed, then recalc()
ChangeTo(ms) ==
  \E r \in {recalc(ms, dom, payload)} :
    /\ models' = ms
    /\ dom' = r.dom
    /\ payload' = r.payload
    /\ UNCHANGED <<idSeq, loads, console, edits, caseVars>>

\* matSel.onchange
PickMaterial ==
  \E id \in RowIds, v \in MaterialNames :
    ChangeTo([models EXCEPT ![Row(id)].material = v])

\* qty.oninput
TypeQty ==
  \E id \in RowIds, text \in ListQtyTyped :
    ChangeTo([models EXCEPT
                ![Row(id)].qty = MathMax(Num(1), parseInt(IF text = "" THEN "1" ELSE text))])

\* rmv.onclick
RemoveRow == \E id \in RowIds : Remove(id)

ListNext ==
  \/ LoadOne
  \/ PickMaterial
  \/ TypeQty
  \/ RemoveRow

SpecList == Init /\ [][ListNext]_vars

(* ---- the quote page, print time: quality, supports and quantity of the rows ---- *)
ClockQtyTyped == {"1", "11"}

\* qualSel.onchange
PickQuality ==
  \E id \in RowIds, v \in QualityNames :
    ChangeTo([models EXCEPT ![Row(id)].quality = v])

\* supSel.onchange
PickSupports ==
  \E id \in RowIds, v \in {"no", "yes"} :
    ChangeTo([models EXCEPT ![Row(id)].supports = v])

\* qty.oninput
TypeClockQty ==
  \E id \in RowIds, text \in ClockQtyTyped :
    ChangeTo([models EXCEPT
                ![Row(id)].qty = MathMax(Num(1), parseInt(IF text = "" THEN "1" ELSE text))])

ClockNext ==
  \/ LoadOne
  \/ PickQuality
  \/ PickSupports
  \/ TypeClockQty

SpecClock == Init /\ [][ClockNext]_vars

(* ---- the discount build (src/unnamed/part_002): list, discount code, download ---- *)
\* texts are sequences of characters here, so that trim and toLowerCase work on them
AdminCode == <<"D", "e", "s", "a", "i", "i", "A", "d", "m", "i", "n", "1", "5">>

\* what a user types into the discount field before a click on Apply
CodesTyped ==
  {<<>>,
   <<" ">>,
   AdminCode,
   <<" ", "d", "E", "S", "A", "I", "I", "a", "D", "M", "I", "N", "1", "5", " ">>,
   <<"D", "e", "s", "a", "i", "i", "1", "5">>}

DiscountQtyTexts == {"1", "3", "2.5"}

\* String.prototype.toLowerCase on one character
LowerChar(c) ==
  CASE c = "A" -> "a" [] c = "D" -> "d" [] c = "E" -> "e" [] c = "I" -> "i"
    [] c = "M" -> "m" [] c = "N" -> "n" [] c = "S" -> "s"
    [] OTHER -> c

\* String.prototype.toLowerCase
toLowerCase(text) == [i \in DOMAIN text |-> LowerChar(text[i])]

RECURSIVE TrimStart(_)
TrimStart(text) ==
  IF text # <<>> /\ Head(text) = " " THEN TrimStart(Tail(text)) ELSE text

RECURSIVE TrimEnd(_)
TrimEnd(text) ==
  IF text # <<>> /\ text[Len(text)] = " "
    THEN TrimEnd(SubSeq(text, 1, Len(text) - 1)) ELSE text

\* String.prototype.trim
trim(text) == TrimEnd(TrimStart(text))

\* num.toFixed(0) of formatPrice, as a number: the nearest whole amount, a half up
formatPrice(num) == Round(num)

\* state.models.reduce((s, m) => s + m.lineTotal, 0), and `total += m.lineTotal`
RECURSIVE SumLineTotals(_)
SumLineTotals(ms) == IF ms = <<>> THEN 0 ELSE ms[1].lineTotal + SumLineTotals(Tail(ms))

\* finalTotal of renderSummary: total - total * discount.rate when a rate is set
FinalTotal(total, rate) == IF rate > 0 THEN total - Mul(total, rate) ELSE total

\* the page after renderSummary has written the texts for the sum `total`
Rendered(p, total) ==
  IF Len(p.models) = 0
    THEN [p EXCEPT !.grandTotal = <<"No items">>, !.downloadDisabled = TRUE,
                   !.discountInfo = <<>>]
    ELSE [p EXCEPT !.grandTotal = <<formatPrice(FinalTotal(total, p.discount.rate))>>,
                   !.downloadDisabled = FALSE,
                   !.discountInfo =
                     IF p.discount.rate > 0
                       THEN <<formatPrice(total), Round(Mul(p.discount.rate, Num(100))),
                              formatPrice(Mul(total, p.discount.rate))>>
                       ELSE <<>>]

\* renderSummary()
renderSummary(p) == Rendered(p, SumLineTotals(p.models))

\* the model reader.onload creates for a mesh of volume v: default material,
\* infill 20, quantity 1
HandledFile(v) == UpdateModelWith(v, CONFIG.defaultMaterial, Num(20), Num(1))

\* the discount taken for the trimmed, lower-cased text without trimming it
DiscountOfUntrimmed(p, text, code) ==
  [p EXCEPT !.discount = IF toLowerCase(text) = toLowerCase(AdminCode)
                           THEN [code |-> AdminCode, rate |-> 150000]
                           ELSE [code |-> <<>>, rate |-> 0],
            !.applied = <<text>>]

\* the three branches of applyDiscount for the typed text and the code made of it
DiscountOf(p, text, code) ==
  [p EXCEPT !.discount = IF code = toLowerCase(AdminCode)
                           THEN [code |-> AdminCode, rate |-> 150000]
                           ELSE [code |-> <<>>, rate |-> 0],
            !.applied = <<text>>]

\* applyDiscount(): const code = (dom.discountCode?.value || '').trim().toLowerCase();
\* the discount is set, then renderSummary()
applyDiscount(p, text) == renderSummary(DiscountOf(p, text, toLowerCase(trim(text))))

\* the payload of the download click for the sum `subtotal`
DiscountPayload(p, subtotal) ==
  [subtotal |-> subtotal, discount_code |-> p.discount.code,
   discount_rate |-> p.discount.rate,
   total_after_discount |-> Mul(subtotal, SCALE - p.discount.rate)]

\* the page when the script has run: no model, no discount, nothing downloaded
DiscountInit ==
  /\ QuoteInit
  /\ feeCase = NoCase /\ meshCase = NoCase /\ partCase = NoCase
  /\ calcCase = [build |-> "part_002", pc |-> "page", models |-> <<>>,
                 discount |-> [code |-> <<>>, rate |-> 0], applied |-> <<>>,
                 grandTotal |-> <<>>, discountInfo |-> <<>>, downloadDisabled |-> TRUE,
                 payload |-> <<>>]

\* reader.onload of handleFiles: the model is pushed and the summary rendered
FileLoaded ==
  /\ Len(calcCase.models) < MaxId
  /\ \E v \in ListVolumes :
       calcCase' = renderSummary([calcCase EXCEPT !.models = Append(@, HandledFile(v)),
                                                  !.payload = <<>>])
  /\ UNCHANGED <<quoteVars, feeCase, meshCase, partCase>>

\* a change or input event on the quantity field of a row: updateModelFromRow
RowChanged ==
  /\ \E k \in DOMAIN calcCase.models, text \in DiscountQtyTexts :
       calcCase' = renderSummary(
         [calcCase EXCEPT
            !.models[k] = updateModelFromRow_002(
                            [volumeMm3 |-> @.volumeMm3, mat |-> @.material,
                             infill |-> "20", qty |-> text]),
            !.payload = <<>>])
  /\ UNCHANGED <<quoteVars, feeCase, meshCase, partCase>>

\* a click on the remove button of a row: removeModel
RowRemoved ==
  /\ \E k \in DOMAIN calcCase.models :
       calcCase' = renderSummary(
         [calcCase EXCEPT
            !.models = SubSeq(@, 1, k - 1) \o SubSeq(@, k + 1, Len(@)),
            !.payload = <<>>])
  /\ UNCHANGED <<quoteVars, feeCase, meshCase, partCase>>

\* a click on Apply with a text in the discount field
ApplyClicked ==
  /\ \E text \in CodesTyped :
       calcCase' = applyDiscount([calcCase EXCEPT !.payload = <<>>], text)
  /\ UNCHANGED <<quoteVars, feeCase, meshCase, partCase>>

\* a click on the enabled download button
DownloadClicked ==
  /\ ~calcCase.downloadDisabled
  /\ calcCase.payload = <<>>
  /\ calcCase' = [calcCase EXCEPT
                    !.payload = <<DiscountPayload(calcCase, SumLineTotals(calcCase.models))>>]
  /\ UNCHANGED <<quoteVars, feeCase, meshCase, partCase>>

DiscountNext ==
  \/ FileLoaded
  \/ RowChanged
  \/ RowRemoved
  \/ ApplyClicked
  \/ DownloadClicked

SpecDiscount == DiscountInit /\ [][DiscountNext]_vars

(* ============================== PROPERTIES ============================= *)
Idle == DOMAIN loads = {}

(* ---- C1 ---- *)
C1_Bounds ==
  feeCase.pc = "priced" =>
    /\ 0 <= feeCase.quote.smallOrderFee
    /\ feeCase.quote.smallOrderFee <= feeCase.maxBaseFee
    /\ (feeCase.subtotal <= SMALL_FEE_THRESHOLD =>
          feeCase.quote.smallOrderFee = feeCase.maxBaseFee)

C1_Step ==
  (/\ feeCase.pc = "priced" /\ feeCase'.pc = "priced"
   /\ feeCase'.maxBaseFee = feeCase.maxBaseFee
   /\ feeCase'.subtotal >= feeCase.subtotal)
    => feeCase'.quote.smallOrderFee <= feeCase.quote.smallOrderFee

\* C1: for every subtotal >= 0 and every configured base fee, the small-order
\* fee recalc computes lies in 0..baseFee, is exactly baseFee for every subtotal
\* up to SMALL_FEE_THRESHOLD (subtotal 0 among them), and never grows when the
\* subtotal grows.
C1_FeeBoundedAndNonIncreasing == []C1_Bounds /\ [][C1_Step]_vars

\* a subtotal inside the taper, priced with a fee strictly between 0 and baseFee
C1_Witness ==
  /\ feeCase.pc = "priced"
  /\ feeCase.subtotal > SMALL_FEE_THRESHOLD
  /\ 0 < feeCase.quote.smallOrderFee
  /\ feeCase.quote.smallOrderFee < feeCase.maxBaseFee

(* ---- C2 ---- *)
\* C2: the final price is ceil(subtotal + smallOrderFee): a whole number of
\* THB, not below subtotal + fee and less than one THB above it.
C2_FinalPriceIsCeiling ==
  feeCase.pc = "priced" =>
    /\ feeCase.quote.finalPrice % SCALE = 0
    /\ feeCase.quote.finalPrice >= feeCase.subtotal + feeCase.quote.smallOrderFee
    /\ feeCase.quote.finalPrice < feeCase.subtotal + feeCase.quote.smallOrderFee + SCALE

\* a priced order whose subtotal + fee has a fraction below one half
C2_Witness ==
  /\ feeCase.pc = "priced"
  /\ (feeCase.subtotal + feeCase.quote.smallOrderFee) % SCALE > 0
  /\ (feeCase.subtotal + feeCase.quote.smallOrderFee) % SCALE < SCALE \div 2

(* ---- C3 ---- *)
\* the base fees of the materials the rows of ms use
BaseFeesUsed(ms) == {MATERIALS[ms[k].material].baseFee : k \in DOMAIN ms}

HighestOf(S) == CHOOSE b \in S : \A c \in S : c <= b

MaterialsUsed(ms) == {ms[k].material : k \in DOMAIN ms}

\* C3: for a non-empty list the fee shown is the fee on the highest base fee
\* among the materials of the list; a PLA row and an ABS row with a subtotal at
\* or below the threshold show a fee of exactly 180.
C3_FeeOnHighestBaseFee ==
  (Idle /\ models # <<>>) =>
    /\ dom.summary[1].smallOrderFee =
         round(SmallOrderFee(Quote(models).subtotal, HighestOf(BaseFeesUsed(models))), 2)
    /\ ((/\ MaterialsUsed(models) = {"PLA", "ABS"}
         /\ Quote(models).subtotal <= SMALL_FEE_THRESHOLD)
          => dom.summary[1].smallOrderFee = Num(180))

\* a PLA row and an ABS row on the page, subtotal below the threshold
C3_Witness ==
  /\ Idle
  /\ Len(models) = 2
  /\ MaterialsUsed(models) = {"PLA", "ABS"}
  /\ Quote(models).subtotal <= SMALL_FEE_THRESHOLD
  /\ dom.summary[1].smallOrderFee = Num(180)

(* ---- C4 ---- *)
\* C4: whenever no addFiles is in flight, the summary and the total on the
\* page are the ones computed from the list as it is now, and are cleared when
\* the list is empty.
C4_PageShowsCurrentList ==
  Idle =>
    IF models = <<>>
      THEN dom.summary = NoSummary /\ dom.grandTotal = NoSummary
      ELSE /\ dom.summary = <<SummaryOf(models, Quote(models))>>
           /\ dom.grandTotal = <<Quote(models).finalPrice>>

\* two files added, one row removed, the other row edited
C4_Witness ==
  /\ Idle
  /\ Len(models) = 1
  /\ idSeq = 3
  /\ edits = 1
  /\ dom.summary # NoSummary

(* ---- C5 ---- *)
FailingSigs == {sigOf(f) : f \in {x \in Files : ~x.parses}}

C5_NoModelOfBadFile == \A k \in DOMAIN models : models[k]._sig \notin FailingSigs

\* this step is invocation k resuming on a file that does not parse
FailedRead(k) ==
  /\ k \in DOMAIN loads
  /\ loads[k].pc = "read"
  /\ ~loads[k].files[loads[k].i].parses
  /\ (k \notin DOMAIN loads' \/ loads'[k] # loads[k])

\* after it, invocation k waits for its next file that is no duplicate, with
\* the count of what it added kept, or has returned when there is none
GoesOn(k) ==
  IF NextToRead(loads[k].files, loads[k].i + 1, models) <= Len(loads[k].files)
    THEN /\ k \in DOMAIN loads'
         /\ loads'[k] = [loads[k] EXCEPT
                           !.i = NextToRead(loads[k].files, loads[k].i + 1, models)]
    ELSE k \notin DOMAIN loads'

C5_Step ==
  \A k \in LoadIds :
    FailedRead(k) => (models' = models /\ idSeq' = idSeq /\ GoesOn(k))

\* C5: a file of a batch that fails to parse gets no model, leaves the models
\* of the list as they are, and the batch goes on with its remaining files.
C5_BadFileSkipped == []C5_NoModelOfBadFile /\ [][C5_Step]_vars

\* with a model already listed, a batch whose first file failed has gone on to
\* its second file, which has parsed
C5_Witness ==
  /\ Len(models) = 1
  /\ sigOf(FileBad) \in console
  /\ \E k \in DOMAIN loads :
       /\ loads[k].files = <<FileBad, FileA>>
       /\ loads[k].i = 2
       /\ loads[k].pc = "thumb"

(* ---- C6 ---- *)
\* the determinant of the rows A, B, C of the triangle at index i, expanded
\* along its first row
Cofactors(a, i) ==
  Mul(a[i + 1], Mul(a[i + 5], a[i + 9]) - Mul(a[i + 6], a[i + 8]))
    - Mul(a[i + 2], Mul(a[i + 4], a[i + 9]) - Mul(a[i + 6], a[i + 7]))
    + Mul(a[i + 3], Mul(a[i + 4], a[i + 8]) - Mul(a[i + 5], a[i + 7]))

RECURSIVE SignedSum(_, _)
SignedSum(a, i) == IF i >= Len(a) THEN 0 ELSE Cofactors(a, i) + SignedSum(a, i + 9)

WasMeasured == meshCase.op # "mesh"

\* C6: on an array whose length is a multiple of 9, computeVolume returns the
\* absolute value of the sum of the triangles' signed terms, divided by 6, and
\* the result is not negative.
C6_AbsoluteSixthOfSum ==
  (WasMeasured /\ Len(meshCase.positions) % 9 = 0) =>
    /\ meshCase.result.value = DivWhole(Abs(SignedSum(meshCase.positions, 0)), Num(6))
    /\ meshCase.result.value >= 0

\* a mesh whose signed sum is negative, measured
C6_Witness ==
  /\ meshCase.op = "measured"
  /\ SignedSum(meshCase.positions, 0) < 0
  /\ meshCase.result.value > 0

(* ---- C7 ---- *)
\* C7: computeVolume of a mesh with every triangle's winding reversed is
\* computeVolume of the mesh.
C7_WindingIndependent ==
  meshCase.op = "reversed" => meshCase.result.value = meshCase.base

\* a mesh of non-zero volume, measured again with its winding reversed
C7_Witness ==
  /\ meshCase.op = "reversed"
  /\ meshCase.base > 0
  /\ Len(meshCase.positions) = 9 * MaxTriangles

(* ---- C8 ---- *)
Cube(s) == Mul(Mul(s, s), s)

\* the last place of the larger of the two results compared: both are
\* truncated to a millionth after the division by 6
LastPlace(c) == Max2(Abs(c) \div SCALE, 1)

\* C8 as stated: scaling every coordinate by s makes computeVolume return
\* s^3 times its result on the original mesh, for any s.
C8_ScalesByCube ==
  meshCase.op = "scaled" =>
    Abs(meshCase.result.value - Mul(Cube(meshCase.factor), meshCase.base))
      <= LastPlace(Cube(meshCase.factor))

\* C8, amended: scaling every coordinate by s makes computeVolume return
\* |s|^3 times its result on the original mesh (s^3 for s >= 0; a negative s
\* mirrors the mesh and the result stays non-negative).
C8_ScalesByAbsCube ==
  meshCase.op = "scaled" =>
    Abs(meshCase.result.value - Mul(Cube(Abs(meshCase.factor)), meshCase.base))
      <= LastPlace(Cube(meshCase.factor))

\* a mesh of non-zero volume measured again at half its size
C8_Witness ==
  /\ meshCase.op = "scaled"
  /\ meshCase.factor = SCALE \div 2
  /\ meshCase.base > 0
  /\ meshCase.result.value > 0

(* ---- C9 ---- *)
\* C9 as stated: on an array whose length is not a multiple of 9 computeVolume
\* fails with an InvalidMeshData error and yields no volume.
C9_RejectsPartialTriangle ==
  (WasMeasured /\ Len(meshCase.positions) % 9 # 0) =>
    meshCase.result.threw = "InvalidMeshData"

(* ---- C10 ---- *)
Grams(c) == c.est.gramsPerPart

BothEstimated == partCase.pc = "estimated" /\ partCase'.pc = "estimated"

\* the step changed the one input named and no other
OnlyChanged(field) ==
  /\ BothEstimated
  /\ \A f \in DOMAIN partCase.m : f # field => partCase'.m[f] = partCase.m[f]

DensityOf(c) == MATERIALS[c.m.material].density_g_cm3

C10_NonNegative == partCase.pc = "estimated" => Grams(partCase) >= 0

C10_VolumeStep ==
  (OnlyChanged("volume_mm3") /\ partCase'.m.volume_mm3 > partCase.m.volume_mm3)
    => Grams(partCase') > Grams(partCase)

C10_SupportsStep ==
  (OnlyChanged("supports") /\ partCase.m.supports = "no" /\ partCase'.m.supports = "yes")
    => Grams(partCase') >= Grams(partCase)

\* C10 as stated: gramsPerPart strictly increases with volume, with density and
\* with infill, is not lower with supports and is never negative, for every
\* volume >= 0.
C10_StrictlyIncreasing ==
  /\ []C10_NonNegative
  /\ [][/\ C10_VolumeStep
        /\ C10_SupportsStep
        /\ (OnlyChanged("material") /\ DensityOf(partCase') > DensityOf(partCase))
             => Grams(partCase') > Grams(partCase)
        /\ (OnlyChanged("infill") /\ partCase'.m.infill > partCase.m.infill)
             => Grams(partCase') > Grams(partCase)]_vars

\* C10, amended: gramsPerPart strictly increases with volume; it strictly
\* increases with density and with infill when the volume is above 0 and is
\* WASTE_GRAMS_PER_PART whatever they are when the volume is 0; it is not lower
\* with supports and never negative.
C10_IncreasingAboveZeroVolume ==
  /\ []C10_NonNegative
  /\ [][/\ C10_VolumeStep
        /\ C10_SupportsStep
        /\ (OnlyChanged("material") /\ DensityOf(partCase') > DensityOf(partCase))
             => IF partCase.m.volume_mm3 > 0
                  THEN Grams(partCase') > Grams(partCase)
                  ELSE Grams(partCase') = WASTE_GRAMS_PER_PART
                         /\ Grams(partCase) = WASTE_GRAMS_PER_PART
        /\ (OnlyChanged("infill") /\ partCase'.m.infill > partCase.m.infill)
             => IF partCase.m.volume_mm3 > 0
                  THEN Grams(partCase') > Grams(partCase)
                  ELSE Grams(partCase') = WASTE_GRAMS_PER_PART
                         /\ Grams(partCase) = WASTE_GRAMS_PER_PART]_vars

\* a part of non-zero volume at full infill with supports, estimated
C10_Witness ==
  /\ partCase.pc = "estimated"
  /\ partCase.m.volume_mm3 > 0
  /\ partCase.m.infill = Num(100)
  /\ partCase.m.supports = "yes"
  /\ Grams(partCase) > WASTE_GRAMS_PER_PART

(* ---- C11 ---- *)
C11_Positive ==
  (partCase.pc = "estimated" /\ partCase.m.volume_mm3 > 0) => partCase.minPerPart > 0

C11_Step ==
  /\ (OnlyChanged("infill") /\ partCase'.m.infill > partCase.m.infill)
       => partCase'.minPerPart >= partCase.minPerPart
  /\ (/\ OnlyChanged("quality")
      /\ QUALITY_SPEED[partCase'.m.quality] < QUALITY_SPEED[partCase.m.quality])
       => partCase'.minPerPart >= partCase.minPerPart

\* C11: the per-part print time is above 0 for every volume above 0, does not
\* fall when the infill percent rises and does not fall when the tier's speed
\* falls (draft <= standard <= fine).
C11_TimePositiveAndMonotone == []C11_Positive /\ [][C11_Step]_vars

\* a part of non-zero volume timed at the slowest tier and full infill
C11_Witness ==
  /\ partCase.pc = "estimated"
  /\ partCase.m.volume_mm3 > 0
  /\ partCase.m.quality = "fine"
  /\ partCase.m.infill = Num(100)
  /\ partCase.minPerPart > 0

(* ---- C12 ---- *)
\* the whole number n a quantity stands for
Count(qty) == qty \div SCALE

\* C12: for every model and quantity n >= 1, gramsTotal is n times gramsPerPart
\* and minutesTotal is n times the per-part minutes, the prep overhead in
\* neither.
C12_TotalsLinearInQuantity ==
  partCase.pc = "estimated" =>
    /\ partCase.est.gramsTotal = Count(partCase.m.qty) * partCase.est.gramsPerPart
    /\ partCase.est.minutesTotal = Count(partCase.m.qty) * partCase.minPerPart

\* three parts of non-zero volume, estimated
C12_Witness ==
  /\ partCase.pc = "estimated"
  /\ partCase.m.qty = Num(3)
  /\ partCase.m.volume_mm3 > 0
  /\ partCase.est.minutesTotal > partCase.minPerPart

(* ---- C13 ---- *)
\* the print minutes of the rows of ms: per-part minutes times quantity, summed
RECURSIVE PrintMinutes(_)
PrintMinutes(ms) ==
  IF ms = <<>> THEN 0
  ELSE Count(ms[1].qty) * timeMinPerPart(ms[1]) + PrintMinutes(Tail(ms))

RECURSIVE PartCount(_)
PartCount(ms) == IF ms = <<>> THEN 0 ELSE Count(ms[1].qty) + PartCount(Tail(ms))

\* the minutes the quote of ms should report: the overhead once, or once per
\* part when the flag is set
ReportedMinutes(ms) ==
  PrintMinutes(ms)
    + (IF PREP_IS_PER_PART THEN PartCount(ms) ELSE 1) * PREP_TIME_PER_JOB_MIN

\* C13: the total time of a quote is the sum over the models of per-part
\* minutes times quantity plus PREP_TIME_PER_JOB_MIN once per batch (times the
\* number of parts only when PREP_IS_PER_PART is true).
C13_PrepOncePerBatch ==
  (Idle /\ models # <<>>) =>
    /\ payload[1].minutes = Round(ReportedMinutes(models))
    /\ payload[1].hours = Floor(DivWhole(ReportedMinutes(models), Num(60)))
    /\ dom.summary[1].hours = payload[1].hours

\* two rows on the page, one of them with sixty parts
C13_Witness ==
  /\ Idle
  /\ Len(models) = 2
  /\ PartCount(models) = 61
  /\ payload[1].minutes = Round(PrintMinutes(models) + PREP_TIME_PER_JOB_MIN)

(* ---- C14 ---- *)
\* C14: in every tapered-fee build the print cost is
\* (per-part print minutes * quantity / 60) * PRINT_RATE_PER_HOUR, the prep
\* overhead being added to the reported time only and leaving the subtotal,
\* the fee and the final price as they are without it.
C14_PrepNotInPrice ==
  /\ calcCase.pc = "priced" /\ calcCase.build = "part_008" =>
       calcCase.out.printCost
         = Mul(DivWhole(Mul(calcCase.out.timeMinPerPart, calcCase.out.quantity), Num(60)),
               PRINT_RATE_PER_HOUR)
  /\ calcCase.pc = "priced" /\ calcCase.build = "part_006" =>
       calcCase.out.printCost
         = Mul(DivWhole(calcCase.out.loopMinutes, Num(60)), PRINT_RATE_PER_HOUR)

(* ---- C15 ---- *)
\* the worked example: 1000 mm^3 of PLA, standard tier, 15 % infill, no supports, one part
ExamplePart ==
  [volume_mm3 |-> Num(1000), material |-> "PLA", quality |-> "standard",
   infill |-> Num(15), supports |-> "no", qty |-> Num(1)]

\* C15: for the 1000 mm^3 PLA part at the standard tier (486 mm^3/min), 15 %
\* infill, no supports, quantity 1, gramsPerPart is within 0.001 of 3.867 g
\* and the per-part print time within 0.001 of 1.934 min.
C15_WorkedExample ==
  partCase.pc = "estimated" /\ partCase.m = ExamplePart =>
    /\ Abs(partCase.est.gramsPerPart - 3867000) < SCALE \div 1000
    /\ Abs(partCase.minPerPart - 1934000) < SCALE \div 1000

C15_Witness ==
  /\ partCase.pc = "estimated"
  /\ partCase.m = ExamplePart
  /\ partCase.est.gramsPerPart > WASTE_GRAMS_PER_PART
  /\ partCase.minPerPart > 0

(* ---- C16 ---- *)
\* C16: for a model of volume 0, whatever its material, tier, infill in 0..100,
\* supports and quantity, gramsPerPart is WASTE_GRAMS_PER_PART exactly, the
\* per-part print time is 0, and the pricing completes without an error: the
\* call returns, with no print cost and the material cost of the waste alone.
C16_ZeroVolume ==
  partCase.pc = "estimated" /\ partCase.m.volume_mm3 = 0 =>
    /\ partCase.threw = "nothing"
    /\ partCase.est.gramsPerPart = WASTE_GRAMS_PER_PART
    /\ partCase.minPerPart = 0
    /\ partCase.est.minutesTotal = 0
    /\ partCase.est.printCost = 0
    /\ partCase.est.sub
         = Mul(Count(partCase.m.qty) * WASTE_GRAMS_PER_PART,
               MATERIALS[partCase.m.material].rate)

\* three parts of volume 0 estimated at full infill with supports
C16_Witness ==
  /\ partCase.pc = "estimated"
  /\ partCase.m.volume_mm3 = 0
  /\ partCase.m.infill = Num(100)
  /\ partCase.m.supports = "yes"
  /\ partCase.m.qty = Num(3)
  /\ partCase.est.gramsTotal = 3 * WASTE_GRAMS_PER_PART

(* ---- C17 ---- *)
\* C17: an estimate asked for a quality tier that is no key of QUALITY_SPEED
\* fails with InvalidQualityTier instead of returning a time or a price.
C17_RejectsUnlistedTier ==
  partCase.pc = "unlisted" /\ partCase.m.quality \notin DOMAIN QUALITY_SPEED =>
    partCase.threw = "InvalidQualityTier"

(* ---- C18 ---- *)
\* C18: in every build, pricing an item whose material key is not in the
\* material table fails fast with UnknownMaterial and produces no price for the
\* item; the item is never silently priced with another material.
C18_RejectsUnlistedMaterial ==
  /\ calcCase.build \in {"part_001", "part_002"} /\ calcCase.pc = "priced"
       /\ calcCase.in.mat \notin DOMAIN CONFIG.materials =>
       calcCase.out.threw = "UnknownMaterial"

(* ---- C19 ---- *)
\* C19: in every multi-file build, after a user's edit of a row's infill field
\* the infill stored on the model and used for its price lies within 0..100.
C19_InfillWithinRange ==
  calcCase.build \in {"part_001", "part_002"} /\ calcCase.pc = "priced" =>
    /\ 0 <= calcCase.out.infill
    /\ calcCase.out.infill <= Num(100)

(* ---- C20 ---- *)
\* the quantity a handler of a build priced with
QtyPriced(c) == IF c.build = "part_008" THEN c.out.quantity ELSE c.out.qty

\* C20: in every build the quantity used in a pricing computation is a whole
\* number not below 1, whatever the user entered.
C20_QuantityWholeAndPositive ==
  calcCase.build \in {"part_001", "part_008"} /\ calcCase.pc = "priced" =>
    /\ QtyPriced(calcCase) >= Num(1)
    /\ QtyPriced(calcCase) % SCALE = 0

C22_NoTwoModelsOfOneSignature ==
  \A i, j \in DOMAIN models : i # j => models[i]._sig # models[j]._sig

(* ---- C23 ---- *)
\* the selection is a file the listener accepts and the loader parses
Loadable(file) == file # NoFile /\ IsStl(file) /\ file.parses

\* C23: in the single-file estimator, once every pending file load has
\* completed the stored metrics used by the Calculate button are those of the
\* file selected last (the parse of an earlier selection that finishes later
\* never overwrites them), and the Calculate button is never enabled for a
\* selection that failed or was rejected.
C23_LastSelectionWins ==
  /\ calcCase.reads = {} /\ Loadable(calcCase.selected) =>
       calcCase.model = MetricsOf(calcCase.selected)
  /\ calcCase.reads = {} /\ calcCase.selected # NoFile /\ ~Loadable(calcCase.selected) =>
       calcCase.calcBtnDisabled

(* ---- C24 ---- *)
\* the final price the page shows
ShownPrice(d) == d.grandTotal[1]

\* a model was added at the end of the list, the others as they were
OneAdded == Len(models') = Len(models) + 1 /\ SubSeq(models', 1, Len(models)) = models

\* one model left the list, the others as they were
OneRemoved == \E k \in DOMAIN models : models' = WithoutId(models, models[k].id)

\* the quantity of one model was raised, everything else as it was
QtyRaised ==
  \E k \in DOMAIN models :
    /\ DOMAIN models' = DOMAIN models
    /\ models'[k].qty > models[k].qty
    /\ models' = [models EXCEPT ![k].qty = models'[k].qty]

C24_Step ==
  /\ models # <<>> /\ (OneAdded \/ QtyRaised) => ShownPrice(dom') >= ShownPrice(dom)
  /\ models' # <<>> /\ OneRemoved => ShownPrice(dom') <= ShownPrice(dom)

\* C24: in the multi-file quote, adding a model to the list or raising the
\* quantity of a model never lowers the final price, and removing a model
\* (leaving a non-empty list) never raises it, for every combination of the
\* configured materials.
C24_PriceMonotone == [][C24_Step]_vars

\* two models of different materials whose subtotal lies in the taper
C24_Witness ==
  /\ Len(models) = 2
  /\ models[1].material = "PETG-CF"
  /\ models[2].material = "ABS"
  /\ Quote(models).subtotal > SMALL_FEE_THRESHOLD
  /\ Quote(models).smallOrderFee > 0
  /\ Quote(models).smallOrderFee < Quote(models).maxBaseFee
  /\ ShownPrice(dom) = Quote(models).finalPrice

(* ---- C25 ---- *)
\* the straight line from the full base fee at the threshold to 0 at
\* threshold + taper, at the subtotal
TaperLine(subtotal, maxBaseFee) ==
  Mul(maxBaseFee,
      DivWhole(SMALL_FEE_THRESHOLD + SMALL_FEE_TAPER - subtotal, SMALL_FEE_TAPER))

\* C25: the small-order fee has no cliff: at subtotal = SMALL_FEE_THRESHOLD
\* both branches give the full base fee, above it the fee decreases linearly
\* (here: within a thousandth of the line), and it is 0 exactly for every
\* subtotal >= SMALL_FEE_THRESHOLD + SMALL_FEE_TAPER (650).
C25_NoCliff ==
  feeCase.pc = "priced" =>
    /\ feeCase.subtotal = SMALL_FEE_THRESHOLD =>
         /\ feeCase.quote.smallOrderFee = feeCase.maxBaseFee
         /\ TaperLine(feeCase.subtotal, feeCase.maxBaseFee) = feeCase.maxBaseFee
    /\ (/\ feeCase.subtotal > SMALL_FEE_THRESHOLD
        /\ feeCase.subtotal < SMALL_FEE_THRESHOLD + SMALL_FEE_TAPER) =>
         Abs(feeCase.quote.smallOrderFee
               - TaperLine(feeCase.subtotal, feeCase.maxBaseFee)) <= SCALE \div 1000
    /\ feeCase.subtotal >= SMALL_FEE_THRESHOLD + SMALL_FEE_TAPER =>
         feeCase.quote.smallOrderFee = 0
    /\ SMALL_FEE_THRESHOLD + SMALL_FEE_TAPER = Num(650)

\* an order priced right where the taper ends
C25_Witness ==
  /\ feeCase.pc = "priced"
  /\ feeCase.subtotal = SMALL_FEE_THRESHOLD + SMALL_FEE_TAPER
  /\ feeCase.quote.smallOrderFee = 0
  /\ feeCase.maxBaseFee = Num(180)

(* ---- C26 ---- *)
\* the list ms with its k-th model taken out
DropAt(ms, k) == [j \in 1..(Len(ms) - 1) |-> IF j < k THEN ms[j] ELSE ms[j + 1]]

\* every model of the list has an id below idSeq (the id of the next model to
\* be created) and no two models of the list share an id
IdsUnique ==
  /\ \A k \in DOMAIN models : models[k].id < idSeq
  /\ \A j, k \in DOMAIN models : j # k => models[j].id # models[k].id

\* a step that shortens the list takes out exactly one model; a step that
\* changes a model in place changes one model only, and neither its id nor its
\* volume
C26_Step ==
  /\ Len(models') < Len(models) =>
       \E k \in DOMAIN models : models' = DropAt(models, k)
  /\ (Len(models') = Len(models) /\ models' # models) =>
       \E k \in DOMAIN models :
         /\ \A j \in DOMAIN models : j # k => models'[j] = models[j]
         /\ models'[k].id = models[k].id
         /\ models'[k].volume_mm3 = models[k].volume_mm3
         /\ models'[k]._sig = models[k]._sig
  /\ Len(models') > Len(models) =>
       /\ SubSeq(models', 1, Len(models)) = models
       /\ Len(models') = Len(models) + 1

\* C26: every model has an id different from every other model ever created,
\* so Remove deletes exactly that one model and leaves the volume, material,
\* quality, infill, supports and quantity of every other model unchanged; a
\* settings change on one row likewise changes only that model.
C26_RowsAreIndependent == []IdsUnique /\ [][C26_Step]_vars

\* the first of two models was removed after a setting of one row was changed:
\* the second is left alone in the list
C26_Witness ==
  /\ Len(models) = 1
  /\ models[1].id = 2
  /\ edits = 1

(* ---- C27 ---- *)
\* the sum of the row prices written into the price cells of the models ms
RECURSIVE SumOfRowPrices(_, _)
SumOfRowPrices(ms, rowPrice) ==
  IF ms = <<>> THEN 0 ELSE rowPrice[ms[1].id][1] + SumOfRowPrices(Tail(ms), rowPrice)

\* C27: the final price shown (ceil of total subtotal + fee) is never less than
\* the sum of the per-model row prices (each the ceil of that model's subtotal).
C27_FinalPriceCoversRows ==
  (/\ Len(models) > 0
   /\ dom.grandTotal # NoSummary
   /\ \A k \in DOMAIN models : dom.prices[models[k].id] # Dash) =>
    ShownPrice(dom) >= SumOfRowPrices(models, dom.prices)

(* ---- C28 ---- *)
\* C28: in the payload, remMinutes (the round of the fractional hours times
\* 60) is always between 0 and 59, and hours * 60 + remMinutes equals the
\* rounded total minutes.
C28_RemMinutesBelowSixty ==
  payload # <<>> =>
    /\ payload[1].remMinutes >= 0
    /\ payload[1].remMinutes <= Num(59)
    /\ 60 * payload[1].hours + payload[1].remMinutes = payload[1].minutes

(* ---- C30 ---- *)
\* the rate is 0 or 0.15, and 0.15 exactly when the text most recently applied,
\* trimmed and compared without regard to case, was DesaiiAdmin15
C30_RateFollowsCode ==
  /\ calcCase.discount.rate \in {0, 150000}
  /\ calcCase.discount.rate = 150000 <=>
       /\ calcCase.applied # <<>>
       /\ toLowerCase(trim(calcCase.applied[1])) = toLowerCase(AdminCode)

\* what the sum of the line totals comes to after the discount
DiscountedSum == Mul(SumLineTotals(calcCase.models), SCALE - calcCase.discount.rate)

\* C30 (as stated): the rate is 0 or 0.15, 0.15 exactly when the most recently
\* applied code was DesaiiAdmin15, and with a non-empty list the total shown
\* equals the sum of the line totals times (1 - rate) and the payload's
\* total_after_discount.
C30_TotalShownIsDiscountedSum ==
  /\ C30_RateFollowsCode
  /\ Len(calcCase.models) > 0 => calcCase.grandTotal[1] = DiscountedSum
  /\ calcCase.payload # <<>> =>
       calcCase.payload[1].total_after_discount = calcCase.grandTotal[1]

\* C30 (amended): the rate follows the code as stated; the payload's
\* total_after_discount is the sum of the line totals times (1 - rate), and the
\* total shown is that amount rounded to whole THB.
C30_TotalShownIsRoundedSum ==
  /\ C30_RateFollowsCode
  /\ Len(calcCase.models) > 0 =>
       /\ calcCase.grandTotal[1] % SCALE = 0
       /\ Abs(calcCase.grandTotal[1] - DiscountedSum) <= SCALE \div 2
  /\ calcCase.payload # <<>> =>
       /\ calcCase.payload[1].total_after_discount = DiscountedSum
       /\ calcCase.payload[1].discount_rate = calcCase.discount.rate

\* a discounted list downloaded after the code was typed in other case with
\* spaces around it, its total not a whole amount
C30_Witness ==
  /\ calcCase.discount.rate = 150000
  /\ calcCase.applied # <<AdminCode>>
  /\ Len(calcCase.models) > 0
  /\ calcCase.payload # <<>>
  /\ calcCase.payload[1].total_after_discount # calcCase.grandTotal[1]

=============================================================================
